---- MODULE Spec2Model ----
(***************************************************************************)
(* The chat streaming pipeline of the repository: the /stream route        *)
(* (app/chat/router.py, stream_chat_response / generate_stream), the chat  *)
(* service behind it (app/chat/services.py, ChatService) and the message   *)
(* table (app/chat/models.py).  Text is modelled as a sequence of          *)
(* one-character strings, so that concatenation, prefix and substring      *)
(* tests are computed as the code computes them.                           *)
(***************************************************************************)
EXTENDS Integers, Sequences, FiniteSets, TLC

(***************************************************************************)
(* Text helpers (Python str operations used by the code).                  *)
(***************************************************************************)
\* s.startswith(p)
StartsWith(s, p) ==
    /\ Len(p) <= Len(s)
    /\ SubSeq(s, 1, Len(p)) = p

\* sub in s
Contains(s, sub) ==
    \E i \in 0..(Len(s) - Len(sub)) : SubSeq(s, i + 1, i + Len(sub)) = sub

UPPER ==
    <<"A","B","C","D","E","F","G","H","I","J","K","L","M","N","O","P","Q","R","S","T","U","V","W","X","Y","Z">>

LOWER ==
    <<"a","b","c","d","e","f","g","h","i","j","k","l","m","n","o","p","q","r","s","t","u","v","w","x","y","z">>

LowerChar(c) ==
    IF \E i \in 1..Len(UPPER) : UPPER[i] = c
    THEN LOWER[CHOOSE i \in 1..Len(UPPER) : UPPER[i] = c]
    ELSE c

\* s.lower()
Lower(s) == [i \in 1..Len(s) |-> LowerChar(s[i])]

RECURSIVE Concat(_)
\* "".join(parts)
Concat(parts) ==
    IF parts = <<>> THEN <<>> ELSE Head(parts) \o Concat(Tail(parts))

(***************************************************************************)
(* Model ids, texts and the values the external collaborators deliver.     *)
(***************************************************************************)
GPT4 == <<"g","p","t","-","4">>

GROQ_MIXTRAL == <<"g","r","o","q","-","m","i","x","t","r","a","l">>

FOO_BAR == <<"f","o","o","-","b","a","r">>

TextHi == <<"h","i">>

TextBtcNews == <<"B","T","C"," ","n","e","w","s">>

\* the ChatRequest bodies the clients send
ChatRequests ==
    { [conversation_id |-> "c1", message |-> TextHi, model_id |-> GPT4],
      [conversation_id |-> "c1", message |-> TextHi, model_id |-> GROQ_MIXTRAL],
      [conversation_id |-> "c1", message |-> TextBtcNews, model_id |-> FOO_BAR],
      [conversation_id |-> "c2", message |-> TextHi, model_id |-> GPT4] }

DeltaHello == <<"H","e","l","l","o">>

DeltaThere == <<" ","t","h","e","r","e">>

DeltaBang == <<"!">>

\* the text deltas a backend generates, in generation order
Deltas == <<DeltaHello, DeltaThere, DeltaBang>>

Delta(i) == Deltas[((i - 1) % Len(Deltas)) + 1]

Boom == <<"b","o","o","m">>

DbDown == <<"d","b"," ","d","o","w","n">>

ForeignKeyViolation == <<"f","o","r","e","i","g","n"," ","k","e","y">>

\* the tag the specification asks for on a partial assistant message
INCOMPLETE == <<"[","i","n","c","o","m","p","l","e","t","e","]">>

\* the concurrent /stream requests
Reqs == {"r1", "r2"}

\* the conversation ids create_conversation hands out ("c2" is never created)
NewConvIds == {"c1"}

\* the most text deltas one backend call delivers
MaxDeltas == 2

(***************************************************************************)
(* ChatService: classification, routing, prompt assembly (pure functions). *)
(***************************************************************************)
FRESHNESS_KEYWORDS ==
    { <<"l","a","t","e","s","t">>,
      <<"c","u","r","r","e","n","t">>,
      <<"n","e","w","s">>,
      <<"t","o","d","a","y">>,
      <<"r","e","c","e","n","t">>,
      <<"w","h","a","t","'","s"," ","h","a","p","p","e","n","i","n","g">>,
      <<"u","p","d","a","t","e">> }

MARKET_KEYWORDS ==
    { <<"b","i","t","c","o","i","n">>,
      <<"b","t","c">>,
      <<"e","t","h","e","r","e","u","m">>,
      <<"e","t","h">>,
      <<"c","r","y","p","t","o">>,
      <<"c","r","y","p","t","o","c","u","r","r","e","n","c","y">>,
      <<"b","i","n","a","n","c","e">>,
      <<"t","r","a","d","i","n","g">>,
      <<"p","r","i","c","e">>,
      <<"m","a","r","k","e","t">>,
      <<"c","o","i","n">> }

\* the keyword test without .lower()
NeedsWebSearch_case_sensitive(user_message) ==
    \E keyword \in FRESHNESS_KEYWORDS : Contains(user_message, keyword)

\* any(keyword in user_message.lower() for keyword in [...])
NeedsWebSearch(user_message) ==
    \E keyword \in FRESHNESS_KEYWORDS : Contains(Lower(user_message), keyword)

NeedsMarketData(user_message) ==
    \E keyword \in MARKET_KEYWORDS : Contains(Lower(user_message), keyword)

\* the branch of generate_ai_response a model id takes ("none": no branch)
ProviderFamily(model_id) ==
    IF StartsWith(model_id, <<"g","p","t">>) THEN "openai"
    ELSE IF StartsWith(model_id, <<"c","l","a","u","d","e">>) THEN "anthropic"
    ELSE IF \/ StartsWith(model_id, <<"g","r","o","q">>)
            \/ Contains(Lower(model_id), <<"l","l","a","m","a">>) THEN "groq"
    ELSE "none"

GROQ_DEFAULT_MODEL ==
    <<"l","l","a","m","a","-","3",".","1","-","7","0","b","-","v","e","r","s","a","t","i","l","e">>

\* groq_model_map.get(model_id, "llama-3.1-70b-versatile")
groq_model_map(model_id) ==
    IF model_id = <<"g","r","o","q","-","l","l","a","m","a","-","3",".","1","-","7","0","b">>
    THEN GROQ_DEFAULT_MODEL
    ELSE IF model_id = <<"g","r","o","q","-","l","l","a","m","a","-","3",".","1","-","8","b">>
    THEN <<"l","l","a","m","a","-","3",".","1","-","8","b","-","i","n","s","t","a","n","t">>
    ELSE IF model_id = <<"g","r","o","q","-","m","i","x","t","r","a","l">>
    THEN <<"m","i","x","t","r","a","l","-","8","x","7","b","-","3","2","7","6","8">>
    ELSE IF model_id = <<"g","r","o","q","-","g","e","m","m","a">>
    THEN <<"g","e","m","m","a","-","7","b","-","i","t">>
    ELSE GROQ_DEFAULT_MODEL

\* the model= argument of the backend call
actual_model(model_id) ==
    IF ProviderFamily(model_id) = "groq" THEN groq_model_map(model_id) ELSE model_id

\* the chunk an adapter yields from its except clause
ErrorChunk(family, e) ==
    IF family = "groq"
    THEN <<"E","r","r","o","r"," ","w","i","t","h"," ","G","r","o","q"," ","A","P","I",":"," ">> \o e
    ELSE <<"E","r","r","o","r",":"," ">> \o e

\* whether an adapter yields a native event as a chunk
AdapterYields(family, ev) ==
    IF family = "anthropic" THEN ev.type = "content_block_delta" ELSE ev.text # <<>>

\* the native events a backend of the family can deliver next, after k deltas:
\* the next delta, or an event that carries no text
NativeEvents(family, k) ==
    IF family = "anthropic"
    THEN {[type |-> "content_block_delta", text |-> Delta(k + 1)],
          [type |-> "message_start", text |-> <<>>]}
    ELSE {[type |-> "chunk", text |-> Delta(k + 1)],
          [type |-> "chunk", text |-> <<>>]}

SYSTEM_BASE ==
    <<"Y","o","u"," ","a","r","e"," ","a"," ","h","e","l","p","f","u","l"," ","A","I"," ","a","s",
    "s","i","s","t","a","n","t"," ","w","i","t","h"," ","a","c","c","e","s","s"," ","t","o"," ","r",
    "e","a","l","-","t","i","m","e"," ","i","n","f","o","r","m","a","t","i","o","n",".">>

WEB_HEADER ==
    <<"\n","\n","C","u","r","r","e","n","t"," ","w","e","b"," ","s","e","a","r","c","h"," ","r","e",
    "s","u","l","t","s",":","\n">>

CRYPTO_HEADER ==
    <<"\n","\n","C","u","r","r","e","n","t"," ","c","r","y","p","t","o","c","u","r","r","e","n","c",
    "y"," ","m","a","r","k","e","t"," ","d","a","t","a",":","\n">>

\* what brave_search.search returns when the request succeeds
WebResults == << [title |-> <<"A","I">>, description |-> <<"n","e","w">>] >>

\* what binance_service.get_market_data returns when the request succeeds
CryptoData == << [symbol |-> <<"B","T","C","U","S","D","T">>,
                  price |-> <<"5","0","0","0","0",".","0">>,
                  change |-> <<"2",".","5">>] >>

\* f"- {title}: {description}\n"
WebLine(result) ==
    <<"-"," ">> \o result.title \o <<":"," ">> \o result.description \o <<"\n">>

\* f"- {symbol}: ${price} (24h change: {change}%)\n"
CryptoLine(d) ==
    <<"-"," ">> \o d.symbol \o <<":"," ","$">> \o d.price
        \o <<" ","(","2","4","h"," ","c","h","a","n","g","e",":"," ">> \o d.change
        \o <<"%",")","\n">>

\* a dict that outlives the call: the second request starts with the web
\* results an earlier call left in it
local_context_stale(contexts, r) ==
    IF r = "r1" THEN <<>> ELSE ("web_search" :> WebResults)

\* context = {}: every call of _get_enhanced_context starts with a dict of
\* its own, whatever the contexts of the other requests hold
local_context(contexts, r) == <<>>

\* a try block of _get_enhanced_context that keeps the value on every outcome
enhanced_context_keep(ctx, key, outcome, value) == (key :> value) @@ ctx

\* a try block of _get_enhanced_context: context[key] = the call's result when
\* the call returns (its result is empty after a failed request), the context
\* left as it was when the call raises
enhanced_context(ctx, key, outcome, value) ==
    IF outcome = "ok" THEN (key :> value) @@ ctx
    ELSE IF outcome = "empty" THEN (key :> <<>>) @@ ctx
    ELSE ctx

\* key in context: true for an empty value too
HasSection_key_set(context, key) == key \in DOMAIN context

\* context.get(key): truthy only when the key is set to a non-empty value
HasSection(context, key) ==
    key \in DOMAIN context /\ context[key] # <<>>

system_content(context) ==
    SYSTEM_BASE
      \o (IF HasSection(context, "web_search")
          THEN WEB_HEADER \o Concat([i \in 1..Len(context["web_search"]) |->
                                        WebLine(context["web_search"][i])])
          ELSE <<>>)
      \o (IF HasSection(context, "crypto_data")
          THEN CRYPTO_HEADER \o Concat([i \in 1..Len(context["crypto_data"]) |->
                                           CryptoLine(context["crypto_data"][i])])
          ELSE <<>>)

\* the history window of _prepare_messages
HISTORY_WINDOW == 10

\* conversation_messages[:10]
FirstN(seq, n) ==
    IF Len(seq) <= n THEN seq ELSE SubSeq(seq, 1, n)

\* conversation_messages[-10:]
LastN(seq, n) ==
    IF Len(seq) <= n THEN seq ELSE SubSeq(seq, Len(seq) - n + 1, Len(seq))

\* _prepare_messages without the [-10:] slice
prepare_messages_whole_history(conversation_messages, new_message, context) ==
    << [role |-> "system", content |-> system_content(context)] >>
      \o [i \in 1..Len(conversation_messages) |->
            [role |-> conversation_messages[i].role,
             content |-> conversation_messages[i].content]]
      \o << [role |-> "user", content |-> new_message] >>

\* _prepare_messages with the system message added after the others
prepare_messages_system_last(conversation_messages, new_message, context) ==
    [i \in 1..Len(LastN(conversation_messages, HISTORY_WINDOW)) |->
        [role |-> LastN(conversation_messages, HISTORY_WINDOW)[i].role,
         content |-> LastN(conversation_messages, HISTORY_WINDOW)[i].content]]
      \o << [role |-> "user", content |-> new_message] >>
      \o << [role |-> "system", content |-> system_content(context)] >>

\* _prepare_messages(conversation_messages, new_message, context)
prepare_messages(conversation_messages, new_message, context) ==
    << [role |-> "system", content |-> system_content(context)] >>
      \o [i \in 1..Len(LastN(conversation_messages, HISTORY_WINDOW)) |->
            [role |-> LastN(conversation_messages, HISTORY_WINDOW)[i].role,
             content |-> LastN(conversation_messages, HISTORY_WINDOW)[i].content]]
      \o << [role |-> "user", content |-> new_message] >>

\* count_tokens(text) = len(self.encoding.encode(text)).  The encoding is the
\* tokenizer library's; each of its tokens covers at least one character, so
\* an empty text has no token and any other text at least one.  This is the
\* least count the call can return.
count_tokens(text) == IF text = <<>> THEN 0 ELSE 1

(***************************************************************************)
(* The message table and the response stream.                              *)
(***************************************************************************)
\* the row add_message builds (id: the table's next primary key)
NewMessage(msgs, conversation_id, role, content, model_id) ==
    [id |-> Len(msgs) + 1, conversation_id |-> conversation_id, role |-> role,
     content |-> content, model_id |-> model_id]

\* the row added twice
add_message_twice(msgs, conversation_id, role, content, model_id) ==
    Append(Append(msgs, NewMessage(msgs, conversation_id, role, content, model_id)),
           NewMessage(msgs, conversation_id, role, content, model_id))

\* a messages table without the foreign key on conversation_id
commit_ok_no_foreign_key(dbOk, convs, conversation_id) == dbOk

\* whether add_message's commit goes through: the database is up and the
\* row's conversation_id refers to a row of table conversations
\* (ForeignKey("conversations.id"), nullable=False)
commit_ok(dbOk, convs, conversation_id) == dbOk /\ conversation_id \in convs

\* the text of the exception a commit raises
commit_error(convs, conversation_id) ==
    IF conversation_id \in convs THEN DbDown ELSE ForeignKeyViolation

\* the row written over the newest row of the table instead of added to it
add_message_overwrite(msgs, conversation_id, role, content, model_id) ==
    IF msgs = <<>>
    THEN << NewMessage(msgs, conversation_id, role, content, model_id) >>
    ELSE [msgs EXCEPT ![Len(msgs)] =
             NewMessage(msgs, conversation_id, role, content, model_id)]

\* add_message without the commit: the row is lost
add_message_unsaved(msgs, conversation_id, role, content, model_id) == msgs

\* the table after add_message's db.add and commit
add_message(msgs, conversation_id, role, content, model_id) ==
    Append(msgs, NewMessage(msgs, conversation_id, role, content, model_id))

\* the rows of one conversation, in creation order
ConversationMessages(msgs, conversation_id) ==
    SelectSeq(msgs, LAMBDA m : m.conversation_id = conversation_id)

\* get_conversation_with_messages(db, conversation_id).messages
get_conversation_with_messages(msgs, conversation_id) ==
    ConversationMessages(msgs, conversation_id)

\* full_content = chunk
Accumulate_overwrite(full, c) == c

\* full_content += chunk
Accumulate(full, c) == full \o c

\* f"data: {json.dumps({'content': chunk})}\n\n"
ContentEvent(c) == [key |-> "content", value |-> c]

\* f"data: {json.dumps({'error': error_msg})}\n\n", error_msg = f"Error: {str(e)}"
ErrorEvent(e) == [key |-> "error", value |-> <<"E","r","r","o","r",":"," ">> \o e]

\* "data: [DONE]\n\n"
DoneEvent == [key |-> "[DONE]", value |-> <<>>]

\* the content event written ahead of the events already sent
EmitContent_prepend(w, c) == <<ContentEvent(c)>> \o w

\* the response after generate_stream yields one content event
EmitContent(w, c) == Append(w, ContentEvent(c))

\* an except clause that swallows the exception
OnException_silent(w, e) == w

\* the response after generate_stream's except clause
OnException(w, e) == Append(w, ErrorEvent(e))

\* the response after generate_stream's last yield
EmitDone(w) == Append(w, DoneEvent)

(***************************************************************************)
(* The browser client: APIClient.streamChatResponse and the loop of        *)
(* useChat.sendMessage that consumes it.                                   *)
(***************************************************************************)
DATA_PREFIX == <<"d","a","t","a",":"," ">>

JSON_CONTENT_OPEN == <<"{","\"","c","o","n","t","e","n","t","\"",":"," ","\"">>

JSON_ERROR_OPEN == <<"{","\"","e","r","r","o","r","\"",":"," ","\"">>

JSON_CLOSE == <<"\"","}">>

DONE_DATA == <<"[","D","O","N","E","]">>

\* String(undefined)
UNDEFINED_TEXT == <<"u","n","d","e","f","i","n","e","d">>

\* the text generate_stream yields for an event:
\* f"data: {json.dumps({'content': chunk})}\n\n", the same with 'error', or
\* "data: [DONE]\n\n" (the texts hold no character json.dumps escapes)
Serialize(e) ==
    DATA_PREFIX
      \o (IF e.key = "[DONE]" THEN DONE_DATA
          ELSE IF e.key = "content" THEN JSON_CONTENT_OPEN \o e.value \o JSON_CLOSE
          ELSE JSON_ERROR_OPEN \o e.value \o JSON_CLOSE)
      \o <<"\n","\n">>

\* the body of a response: the texts of its events, one after the other
Body(w) == Concat([i \in 1..Len(w) |-> Serialize(w[i])])

RECURSIVE Split(_)
\* chunk.split('\n')
Split(text) ==
    IF \E i \in 1..Len(text) : text[i] = "\n"
    THEN LET i == CHOOSE i \in 1..Len(text) :
                     text[i] = "\n" /\ \A j \in 1..(i - 1) : text[j] # "\n"
         IN  << SubSeq(text, 1, i - 1) >> \o Split(SubSeq(text, i + 1, Len(text)))
    ELSE << text >>

\* the JavaScript value undefined, and a string value
Undefined == [defined |-> FALSE, text |-> <<>>]

StringValue(text) == [defined |-> TRUE, text |-> text]

\* data is the JSON text of an object with the one key of open and a string
\* value
IsJsonObject(data, open) ==
    /\ Len(data) >= Len(open) + Len(JSON_CLOSE)
    /\ StartsWith(data, open)
    /\ SubSeq(data, Len(data) - Len(JSON_CLOSE) + 1, Len(data)) = JSON_CLOSE
    /\ \A i \in (Len(open) + 1)..(Len(data) - Len(JSON_CLOSE)) : data[i] # "\""

\* JSON.parse(data) followed by .content: the string of a content object,
\* undefined for an object without the key; JSON.parse throws on other text
JsonParse(data) ==
    IF IsJsonObject(data, JSON_CONTENT_OPEN)
    THEN [throws |-> FALSE,
          content |-> StringValue(SubSeq(data, Len(JSON_CONTENT_OPEN) + 1,
                                         Len(data) - Len(JSON_CLOSE)))]
    ELSE IF IsJsonObject(data, JSON_ERROR_OPEN)
    THEN [throws |-> FALSE, content |-> Undefined]
    ELSE [throws |-> TRUE, content |-> Undefined]

RECURSIVE ProcessLines(_, _)
\* "for (const line of lines)" of streamChatResponse: the values yielded for
\* the lines of one chunk, and whether the generator returned at [DONE]
ProcessLines(lines, acc) ==
    IF lines = <<>> THEN [yields |-> acc, returned |-> FALSE]
    ELSE IF ~StartsWith(Head(lines), DATA_PREFIX) THEN ProcessLines(Tail(lines), acc)
    ELSE LET data == SubSeq(Head(lines), Len(DATA_PREFIX) + 1, Len(Head(lines))) IN
         IF data = DONE_DATA THEN [yields |-> acc, returned |-> TRUE]
         ELSE IF JsonParse(data).throws THEN ProcessLines(Tail(lines), acc)
         ELSE ProcessLines(Tail(lines), Append(acc, JsonParse(data).content))

\* the string a value adds to fullContent: fullContent += chunk
ToText(v) == IF v.defined THEN v.text ELSE UNDEFINED_TEXT

(***************************************************************************)
(* The Home page: its sidebars, the AnimatedThemeToggler and the click     *)
(* handlers of the elements a click can reach.                             *)
(***************************************************************************)
MaxClicks == 6

NoEvent == [target |-> "none", handlers |-> <<>>, stopped |-> FALSE]

\* the state of Home after its first render: useState(false) three times
HomeInitial(viewport) ==
    [viewport |-> viewport,
     isSidebarOpen |-> FALSE,
     isDesktopSidebarCollapsed |-> FALSE,
     isDropdownOpen |-> FALSE,
     toggleCalls |-> 0,
     event |-> NoEvent]

\* e.stopPropagation()
stopPropagation(h) == [h EXCEPT !.event.stopped = TRUE]

\* the toggleDarkMode prop is called
toggleDarkMode(h) == [h EXCEPT !.toggleCalls = @ + 1]

handleClick_propagates(h) == toggleDarkMode(h)

handleClick_twice(h) == toggleDarkMode(toggleDarkMode(stopPropagation(h)))

\* AnimatedThemeToggler.handleClick
handleClick(h) == toggleDarkMode(stopPropagation(h))

\* the elements a click can land on
Targets ==
    {"header-toggler", "mobile-toggler", "mobile-overlay", "mobile-sidebar-toggle",
     "mobile-menu-toggle", "desktop-sidebar", "desktop-sidebar-toggle", "logo",
     "plus-button"}

Togglers == {"header-toggler", "mobile-toggler"}

\* target.closest('button, a, input, textarea, select') finds an element
IsInteractiveElement(target) ==
    target \in Togglers \cup {"mobile-sidebar-toggle", "mobile-menu-toggle",
                              "desktop-sidebar-toggle", "plus-button"}

\* the onClick handlers between a target and the root, innermost first
Path(target) ==
    CASE target \in Togglers -> << "AnimatedThemeToggler" >>
      [] target = "desktop-sidebar-toggle" -> << "desktop-sidebar-toggle", "desktop-sidebar" >>
      [] target = "logo" -> << "logo", "desktop-sidebar" >>
      [] OTHER -> << target >>

\* the onClick handler of an element of Home
onClick(element, target, h) ==
    CASE element = "AnimatedThemeToggler" -> handleClick(h)
      [] element = "mobile-overlay" ->
            IF target = "mobile-overlay" THEN [h EXCEPT !.isSidebarOpen = FALSE] ELSE h
      [] element = "mobile-sidebar-toggle" ->
            [stopPropagation(h) EXCEPT !.isSidebarOpen = FALSE]
      [] element = "mobile-menu-toggle" -> [h EXCEPT !.isSidebarOpen = ~@]
      [] element = "desktop-sidebar" ->
            IF ~IsInteractiveElement(target)
            THEN [stopPropagation(h) EXCEPT !.isDesktopSidebarCollapsed = ~@]
            ELSE h
      [] element = "desktop-sidebar-toggle" ->
            [stopPropagation(h) EXCEPT !.isDesktopSidebarCollapsed = ~@]
      [] element = "logo" -> stopPropagation(h)
      [] element = "plus-button" -> [h EXCEPT !.isDropdownOpen = ~@]

\* the mousedown listener of the document: a press outside dropdownRef closes
\* the dropdown (handleSidebarToggle, the other listener, changes nothing)
handleClickOutside(target, h) ==
    IF target # "plus-button" THEN [h EXCEPT !.isDropdownOpen = FALSE] ELSE h

RECURSIVE Bubble(_, _, _)
\* the click event bubbles through the handlers of a path until one stops it
Bubble(path, target, h) ==
    IF path = <<>> \/ h.event.stopped THEN h
    ELSE Bubble(Tail(path), target,
                onClick(Head(path), target,
                        [h EXCEPT !.event.handlers = Append(@, Head(path))]))

\* the elements that are rendered and displayed
Visible(h) ==
    IF h.viewport = "desktop"
    THEN {"header-toggler", "desktop-sidebar", "desktop-sidebar-toggle", "logo",
          "plus-button"}
    ELSE IF h.isSidebarOpen
    THEN {"mobile-toggler", "mobile-overlay", "mobile-sidebar-toggle"}
    ELSE {"header-toggler", "mobile-menu-toggle", "plus-button"}

(***************************************************************************)
(* The theme toggle test page and the voice theme notification.            *)
(***************************************************************************)
MaxToggles == 4

\* localStorage.getItem('theme'): nothing, or what the page has written
SavedThemes == {"none", "dark", "light"}

\* the first render: useState(false), both effects to run in their order
TogglePageInitial(prefersDark, savedTheme, rootDark) ==
    [isDarkMode |-> FALSE,
     rootDark |-> rootDark,
     theme |-> savedTheme,
     prefersDark |-> prefersDark,
     savedTheme |-> savedTheme,
     effects |-> <<"checkInitialTheme", "applyTheme">>,
     pending |-> "none",
     history |-> <<>>]

\* the mount effect: setIsDarkMode(savedTheme === 'dark') or
\* setIsDarkMode(prefersDark)
checkInitialTheme(t) ==
    [t EXCEPT !.pending = IF t.theme # "none"
                          THEN (IF t.theme = "dark" THEN "dark" ELSE "light")
                          ELSE (IF t.prefersDark THEN "dark" ELSE "light")]

\* an effect that sets the class and the item but never takes them back
applyTheme_never_clears(t) ==
    IF t.isDarkMode THEN [t EXCEPT !.rootDark = TRUE, !.theme = "dark"] ELSE t

\* the effect on [isDarkMode]
applyTheme(t) ==
    IF t.isDarkMode
    THEN [t EXCEPT !.rootDark = TRUE, !.theme = "dark"]
    ELSE [t EXCEPT !.rootDark = FALSE, !.theme = "light"]

\* the re-render that applies the queued state update; the effect on
\* [isDarkMode] is queued when the value has changed
rerender(t) ==
    LET mode == t.pending = "dark"
    IN [t EXCEPT !.isDarkMode = mode,
                 !.pending = "none",
                 !.effects = IF mode # t.isDarkMode THEN <<"applyTheme">> ELSE <<>>]

\* setIsDarkMode(prev => !prev)
TestTogglePage_toggleDarkMode(t) ==
    [t EXCEPT !.pending = IF t.isDarkMode THEN "light" ELSE "dark",
              !.history = Append(@, t.isDarkMode)]

\* no effect and no state update is outstanding
Settled(t) == t.effects = <<>> /\ t.pending = "none"

\* String.prototype.trim for texts of letters and spaces
RECURSIVE TrimStart(_)
TrimStart(text) ==
    IF text # <<>> /\ Head(text) = " " THEN TrimStart(Tail(text)) ELSE text

RECURSIVE TrimEnd(_)
TrimEnd(text) ==
    IF text # <<>> /\ text[Len(text)] = " " THEN TrimEnd(SubSeq(text, 1, Len(text) - 1))
    ELSE text

Trim(text) == TrimEnd(TrimStart(text))

\* the voice commands of recognition.onresult
DARK_COMMAND ==
    <<"s","y","s","t","e","m"," ","s","w","i","t","c","h"," ","d","a","r","k"," ","m","o","d","e">>

LIGHT_COMMAND ==
    <<"s","y","s","t","e","m"," ","s","w","i","t","c","h"," ","l","i","g","h","t"," ","m","o","d",
    "e">>

\* what the recognition service may hand over
TextSwitchDark ==
    <<"S","y","s","t","e","m"," ","s","w","i","t","c","h"," ","d","a","r","k"," ","m","o","d","e",
    " ">>

TextDarkMode ==
    <<"d","a","r","k"," ","m","o","d","e">>

Transcripts == {TextSwitchDark, LIGHT_COMMAND, TextDarkMode, TextHi}

NOTIFICATION_SECONDS == 3

MaxSeconds == 5

\* Home's voice state and the timer of the VoiceThemeNotification it renders.
\* stopped is the isDarkMode seen by the onresult of a recognition instance
\* that the effect's cleanup has stopped and that can still deliver what it
\* heard; timer holds the age in seconds of the notification's running timer;
\* visibleFor is the time since the notification became visible.
NotificationInitial ==
    [mounted |-> TRUE,
     isDarkMode |-> FALSE,
     inputText |-> <<>>,
     isListening |-> FALSE,
     stopped |-> "none",
     isVisible |-> FALSE,
     message |-> "",
     theme |-> "dark",
     timer |-> <<>>,
     visibleFor |-> 0,
     heard |-> <<>>,
     toggleCalls |-> 0,
     lastEvent |-> "none"]

\* the effect of VoiceThemeNotification on [isVisible, onClose] after a render
\* of Home: onClose is a new function in every render of Home, so the cleanup
\* clears the running timer and the effect starts a new one while visible
notificationEffect(n) ==
    [n EXCEPT !.timer = IF n.isVisible THEN <<0>> ELSE <<>>]

\* setVoiceThemeNotification({isVisible: true, message, theme})
setVoiceThemeNotification(message, theme, n) ==
    notificationEffect([n EXCEPT !.visibleFor = IF n.isVisible THEN @ ELSE 0,
                                 !.isVisible = TRUE,
                                 !.message = message,
                                 !.theme = theme])

\* toggleDarkMode of useDarkMode: the theme flips
useDarkMode_toggleDarkMode(n) ==
    [n EXCEPT !.isDarkMode = ~@, !.toggleCalls = @ + 1]

\* recognition.onresult of the instance whose effect ran with isDarkMode
onresult(transcript, isDarkMode, n) ==
    LET lowerTranscript == Trim(Lower(transcript))
        m == [n EXCEPT !.heard = transcript, !.toggleCalls = 0]
        off(x) == [x EXCEPT !.isListening = FALSE]
    IN IF lowerTranscript = DARK_COMMAND
       THEN IF ~isDarkMode
            THEN off(setVoiceThemeNotification("Switched to dark mode", "dark",
                                               useDarkMode_toggleDarkMode(m)))
            ELSE off(setVoiceThemeNotification("Already in dark mode", "dark", m))
       ELSE IF lowerTranscript = LIGHT_COMMAND
       THEN IF isDarkMode
            THEN off(setVoiceThemeNotification("Switched to light mode", "light",
                                               useDarkMode_toggleDarkMode(m)))
            ELSE off(setVoiceThemeNotification("Already in light mode", "light", m))
       ELSE LET x == off([m EXCEPT !.inputText = transcript])
            IN IF x.inputText # n.inputText \/ x.isListening # n.isListening
               THEN notificationEffect(x)
               ELSE x

\* the effect on [isDarkMode, toggleDarkMode] after the theme has changed: the
\* cleanup stops the instance of the last render, a new one is created
recognitionEffect(isDarkMode, n) ==
    [n EXCEPT !.stopped = IF n.isListening
                          THEN (IF isDarkMode THEN "dark" ELSE "light")
                          ELSE @,
              !.isListening = FALSE]

\* onClose of Home: setVoiceThemeNotification(prev => ({...prev, isVisible: false}))
onClose(n) ==
    notificationEffect([n EXCEPT !.isVisible = FALSE])

MaxTurns == 2

\* the state of the chat after the first render of Home
ChatInitial ==
    [messages |-> <<>>,
     inputText |-> <<>>,
     isLoading |-> FALSE,
     showWelcome |-> TRUE,
     lastClickedPrompt |-> <<>>,
     clickAge |-> "over",
     submitTimers |-> <<>>,
     responseTimers |-> <<>>,
     turns |-> 0,
     lastEvent |-> "none"]

\* handleSubmit without its guard
handleSubmit_unguarded(inputText, isLoading, c) ==
    [c EXCEPT !.showWelcome = FALSE,
              !.messages = Append(@, [role |-> "user", content |-> inputText,
                                      turn |-> c.turns + 1]),
              !.inputText = <<>>,
              !.isLoading = TRUE,
              !.responseTimers = Append(@, [content |-> inputText, turn |-> c.turns + 1]),
              !.turns = @ + 1]

\* handleSubmit as the render that saw inputText and isLoading defined it;
\* the updates are applied to the chat as it is now
handleSubmit(inputText, isLoading, c) ==
    IF Trim(inputText) = <<>> \/ isLoading THEN c
    ELSE [c EXCEPT !.showWelcome = FALSE,
                   !.messages = Append(@, [role |-> "user", content |-> inputText,
                                           turn |-> c.turns + 1]),
                   !.inputText = <<>>,
                   !.isLoading = TRUE,
                   !.responseTimers = Append(@, [content |-> inputText,
                                                 turn |-> c.turns + 1]),
                   !.turns = @ + 1]

\* handlePromptClick: the second click on a prompt within 300 ms sets the
\* input and starts a zero-delay timer that calls the handleSubmit of this
\* render; any other click sets the input and remembers the prompt
handlePromptClick(prompt, c) ==
    IF prompt = c.lastClickedPrompt /\ c.clickAge = "within"
    THEN [c EXCEPT !.inputText = prompt,
                   !.submitTimers = Append(@, [inputText |-> c.inputText,
                                               isLoading |-> c.isLoading]),
                   !.lastClickedPrompt = <<>>,
                   !.clickAge = "over"]
    ELSE [c EXCEPT !.inputText = prompt,
                   !.lastClickedPrompt = prompt,
                   !.clickAge = "within"]

\* the callback of the response timer: the answer to the submitted message
responseCallback(timer, c) ==
    [c EXCEPT !.messages = Append(@, [role |-> "assistant", content |-> timer.content,
                                      turn |-> timer.turn]),
              !.isLoading = FALSE,
              !.responseTimers = Tail(@)]

\* the onClick of the New Chat button and of the logo
newChat(c) == [c EXCEPT !.messages = <<>>, !.showWelcome = TRUE]

(***************************************************************************)
(* State.                                                                  *)
(***************************************************************************)
VARIABLES
    conversations,  \* rows of table conversations (their ids)
    messages,       \* rows of table messages, in creation order
    pc,             \* per request: the stage generate_stream is at
    chat_request,   \* per request: ChatRequest (conversation_id, message, model_id)
    history,        \* per request: conversation.messages as loaded
    context,        \* per request: enhanced_context
    prompt,         \* per request: the message list passed to the backend
    full_content,   \* per request: generate_stream's accumulator
    wire,           \* per request: the events written to the response, in order
    adapter,        \* per request: state of the provider generator
    yielded,        \* per request: every chunk the adapter has yielded, in order
    calls,          \* per request: the external calls made, in order
    saved,          \* per request: ids of the rows add_message returned to it
    failure,        \* per request: how and where the request ended without completing
    response,       \* client: the events the server wrote to the response being read
    net,            \* client: the chunks of a response body not yet read, in order
    received,       \* client: the values streamChatResponse has yielded, in order
    ui,             \* client: useChat's message text (fullContent) and how the call stands
    home,           \* client: the state of the Home page and its last click
    chat,           \* client: the chat state of the Home page and its pending callbacks
    togglePage,     \* client: the theme toggle test page, the document and the storage
    notification    \* client: the voice theme notification and its timer

pageVars == <<chat, togglePage, notification>>

\* no page but Home is mounted and nothing was typed or sent
PagesIdle ==
    /\ chat = ChatInitial
    /\ togglePage = TogglePageInitial(FALSE, "none", FALSE)
    /\ notification = NotificationInitial

\* the state of the browser client
clientVars == <<response, net, received, ui, home, chat, togglePage, notification>>

vars ==
    <<conversations, messages, pc, chat_request, history, context, prompt,
      full_content, wire, adapter, yielded, calls, saved, failure, response, net,
      received, ui, home, chat, togglePage, notification>>

NoRequest == [conversation_id |-> "none", message |-> <<>>, model_id |-> <<>>]

NoFailure == [kind |-> "none", at |-> "none"]

\* the client before it has sent anything
ClientIdle ==
    /\ response = <<>>
    /\ net = <<>>
    /\ received = <<>>
    /\ ui = [content |-> <<>>, status |-> "idle"]
    /\ home = HomeInitial("desktop")
    /\ PagesIdle

\* the stages in which generate_stream is running
ActiveStages ==
    {"PERSIST_USER", "LOAD_HISTORY", "ENRICH_WEB", "ENRICH_MARKET", "ASSEMBLE",
     "DISPATCH", "STREAMING", "PERSIST_ASSISTANT"}

Init ==
    /\ conversations = {}
    /\ messages = <<>>
    /\ pc = [r \in Reqs |-> "RECEIVED"]
    /\ chat_request = [r \in Reqs |-> NoRequest]
    /\ history = [r \in Reqs |-> <<>>]
    /\ context = [r \in Reqs |-> <<>>]
    /\ prompt = [r \in Reqs |-> <<>>]
    /\ full_content = [r \in Reqs |-> <<>>]
    /\ wire = [r \in Reqs |-> <<>>]
    /\ adapter = [r \in Reqs |-> "idle"]
    /\ yielded = [r \in Reqs |-> <<>>]
    /\ calls = [r \in Reqs |-> <<>>]
    /\ saved = [r \in Reqs |-> <<>>]
    /\ failure = [r \in Reqs |-> NoFailure]
    /\ ClientIdle

(***************************************************************************)
(* Operations.                                                             *)
(***************************************************************************)
\* POST /conversations: create_conversation
create_conversation(c) ==
    /\ c \notin conversations
    /\ conversations' = conversations \cup {c}
    /\ UNCHANGED <<messages, pc, chat_request, history, context, prompt, full_content,
                   wire, adapter, yielded, calls, saved, failure>>
    /\ UNCHANGED clientVars

\* a route with a guard per conversation that is taken and never released
Receive_guard_held(r, request) ==
    /\ pc[r] = "RECEIVED"
    /\ chat_request' = [chat_request EXCEPT ![r] = request]
    /\ IF \E q \in Reqs \ {r} :
             /\ pc[q] # "RECEIVED"
             /\ chat_request[q].conversation_id = request.conversation_id
       THEN /\ wire' = [wire EXCEPT ![r] = OnException(wire[r], <<"B","u","s","y">>)]
            /\ pc' = [pc EXCEPT ![r] = "FAILED"]
            /\ failure' = [failure EXCEPT ![r] = [kind |-> "exception", at |-> "RECEIVED"]]
            /\ UNCHANGED <<conversations, messages, history, context, prompt,
                           full_content, adapter, yielded, calls, saved>>
       ELSE /\ pc' = [pc EXCEPT ![r] = "PERSIST_USER"]
            /\ UNCHANGED <<conversations, messages, history, context, prompt,
                           full_content, wire, adapter, yielded, calls, saved, failure>>
    /\ UNCHANGED clientVars

\* POST /stream: the route is called and generate_stream starts
Receive(r, request) ==
    /\ pc[r] = "RECEIVED"
    /\ chat_request' = [chat_request EXCEPT ![r] = request]
    /\ pc' = [pc EXCEPT ![r] = "PERSIST_USER"]
    /\ UNCHANGED <<conversations, messages, history, context, prompt, full_content,
                   wire, adapter, yielded, calls, saved, failure>>
    /\ UNCHANGED clientVars

\* generate_stream's except clause, entered from stage pc[r] with exception e
Raise(r, e) ==
    /\ wire' = [wire EXCEPT ![r] = OnException(wire[r], e)]
    /\ pc' = [pc EXCEPT ![r] = "FAILED"]
    /\ failure' = [failure EXCEPT ![r] = [kind |-> "exception", at |-> pc[r]]]

\* "First, save the user message": add_message; its commit fails when the
\* database does (dbOk = FALSE) or the conversation row does not exist
PersistUser(r, dbOk) ==
    /\ pc[r] = "PERSIST_USER"
    /\ IF commit_ok(dbOk, conversations, chat_request[r].conversation_id)
       THEN /\ messages' = add_message(messages, chat_request[r].conversation_id, "user",
                                      chat_request[r].message, chat_request[r].model_id)
            /\ saved' = [saved EXCEPT ![r] = Append(saved[r], Len(messages) + 1)]
            /\ pc' = [pc EXCEPT ![r] = "LOAD_HISTORY"]
            /\ UNCHANGED <<wire, failure>>
       ELSE /\ Raise(r, commit_error(conversations, chat_request[r].conversation_id))
            /\ UNCHANGED <<messages, saved>>
    /\ UNCHANGED <<conversations, chat_request, history, context, prompt, full_content,
                   adapter, yielded, calls>>
    /\ UNCHANGED clientVars

\* generate_ai_response: get_conversation_with_messages
LoadHistory(r, dbOk) ==
    /\ pc[r] = "LOAD_HISTORY"
    /\ IF dbOk /\ chat_request[r].conversation_id \in conversations
       THEN /\ history' = [history EXCEPT ![r] =
                              get_conversation_with_messages(messages,
                                                          chat_request[r].conversation_id)]
            /\ pc' = [pc EXCEPT ![r] = "ENRICH_WEB"]
            /\ UNCHANGED <<wire, failure>>
       ELSE /\ Raise(r, DbDown)
            /\ UNCHANGED history
    /\ UNCHANGED <<conversations, messages, chat_request, context, prompt, full_content,
                   adapter, yielded, calls, saved>>
    /\ UNCHANGED clientVars

\* _get_enhanced_context, first block: brave_search.search returns results
\* ("ok"), returns [] after a failed request ("empty"), or raises ("raise")
EnrichWeb(r, outcome) ==
    /\ pc[r] = "ENRICH_WEB"
    /\ IF NeedsWebSearch(chat_request[r].message)
       THEN /\ calls' = [calls EXCEPT ![r] =
                            Append(calls[r], [to |-> "brave_search", model |-> <<>>,
                                              outcome |-> outcome])]
            /\ context' = [context EXCEPT ![r] =
                              enhanced_context(local_context(context, r), "web_search",
                                               outcome, WebResults)]
       ELSE /\ outcome = "ok"
            /\ context' = [context EXCEPT ![r] = local_context(context, r)]
            /\ UNCHANGED calls
    /\ pc' = [pc EXCEPT ![r] = "ENRICH_MARKET"]
    /\ UNCHANGED <<conversations, messages, chat_request, history, prompt, full_content,
                   wire, adapter, yielded, saved, failure>>
    /\ UNCHANGED clientVars

\* _get_enhanced_context, second block: binance_service.get_market_data
EnrichMarket(r, outcome) ==
    /\ pc[r] = "ENRICH_MARKET"
    /\ IF NeedsMarketData(chat_request[r].message)
       THEN /\ calls' = [calls EXCEPT ![r] =
                            Append(calls[r], [to |-> "binance", model |-> <<>>,
                                              outcome |-> outcome])]
            /\ context' = [context EXCEPT ![r] =
                              enhanced_context(context[r], "crypto_data", outcome, CryptoData)]
       ELSE /\ outcome = "ok"
            /\ UNCHANGED <<calls, context>>
    /\ pc' = [pc EXCEPT ![r] = "ASSEMBLE"]
    /\ UNCHANGED <<conversations, messages, chat_request, history, prompt, full_content,
                   wire, adapter, yielded, saved, failure>>
    /\ UNCHANGED clientVars

\* generate_ai_response: _prepare_messages
Assemble(r) ==
    /\ pc[r] = "ASSEMBLE"
    /\ prompt' = [prompt EXCEPT ![r] =
                     prepare_messages(history[r], chat_request[r].message, context[r])]
    /\ pc' = [pc EXCEPT ![r] = "DISPATCH"]
    /\ UNCHANGED <<conversations, messages, chat_request, history, context, full_content,
                   wire, adapter, yielded, calls, saved, failure>>
    /\ UNCHANGED clientVars

\* generate_stream's loop body, run when the adapter yields chunk c:
\* accumulate it and send it as one content event
Relay(r, c) ==
    /\ yielded' = [yielded EXCEPT ![r] = Append(yielded[r], c)]
    /\ full_content' = [full_content EXCEPT ![r] = Accumulate(full_content[r], c)]
    /\ wire' = [wire EXCEPT ![r] = EmitContent(wire[r], c)]

\* generate_ai_response: the branch on model_id and the adapter's create call.
\* No branch taken: the generator ends without a chunk.  The call raising
\* (ok = FALSE): the adapter's except clause yields the error text as a chunk
\* and the adapter is exhausted at the next pull.
Dispatch(r, ok) ==
    /\ pc[r] = "DISPATCH"
    /\ LET family == ProviderFamily(chat_request[r].model_id) IN
       IF family = "none"
       THEN /\ ok
            /\ pc' = [pc EXCEPT ![r] = "PERSIST_ASSISTANT"]
            /\ UNCHANGED <<calls, adapter, yielded, full_content, wire>>
       ELSE /\ calls' = [calls EXCEPT ![r] =
                            Append(calls[r], [to |-> family,
                                              model |-> actual_model(chat_request[r].model_id),
                                              outcome |-> IF ok THEN "ok" ELSE "raise"])]
            /\ IF ok
               THEN /\ adapter' = [adapter EXCEPT ![r] = "open"]
                    /\ pc' = [pc EXCEPT ![r] = "STREAMING"]
                    /\ UNCHANGED <<yielded, full_content, wire>>
               ELSE /\ adapter' = [adapter EXCEPT ![r] = "failed"]
                    /\ Relay(r, ErrorChunk(family, Boom))
                    /\ pc' = [pc EXCEPT ![r] = "PERSIST_ASSISTANT"]
    /\ UNCHANGED <<conversations, messages, chat_request, history, context, prompt,
                   saved, failure>>
    /\ UNCHANGED clientVars

\* the adapter's "async for chunk in stream": the backend delivers one event;
\* the adapter yields its text as a chunk, or skips it
NextEvent(r, ev) ==
    /\ pc[r] = "STREAMING"
    /\ adapter[r] = "open"
    /\ Len(yielded[r]) < MaxDeltas
    /\ IF AdapterYields(ProviderFamily(chat_request[r].model_id), ev)
       THEN Relay(r, ev.text)
       ELSE UNCHANGED <<yielded, full_content, wire>>
    /\ UNCHANGED <<conversations, messages, pc, chat_request, history, context, prompt,
                   adapter, calls, saved, failure>>
    /\ UNCHANGED clientVars

\* the backend's stream ends: the adapter and generate_ai_response return
StreamEnd(r) ==
    /\ pc[r] = "STREAMING"
    /\ adapter[r] = "open"
    /\ adapter' = [adapter EXCEPT ![r] = "closed"]
    /\ pc' = [pc EXCEPT ![r] = "PERSIST_ASSISTANT"]
    /\ UNCHANGED <<conversations, messages, chat_request, history, context, prompt,
                   full_content, wire, yielded, calls, saved, failure>>
    /\ UNCHANGED clientVars

\* the backend's stream raises: the adapter's except clause yields the error
\* text as a chunk and the adapter is exhausted at the next pull
StreamError(r) ==
    /\ pc[r] = "STREAMING"
    /\ adapter[r] = "open"
    /\ adapter' = [adapter EXCEPT ![r] = "failed"]
    /\ Relay(r, ErrorChunk(ProviderFamily(chat_request[r].model_id), Boom))
    /\ pc' = [pc EXCEPT ![r] = "PERSIST_ASSISTANT"]
    /\ UNCHANGED <<conversations, messages, chat_request, history, context, prompt,
                   calls, saved, failure>>
    /\ UNCHANGED clientVars

\* "Save the complete AI response" and the last yield
PersistAssistant(r, dbOk) ==
    /\ pc[r] = "PERSIST_ASSISTANT"
    /\ IF commit_ok(dbOk, conversations, chat_request[r].conversation_id)
       THEN /\ messages' = add_message(messages, chat_request[r].conversation_id,
                                      "assistant", full_content[r],
                                      chat_request[r].model_id)
            /\ saved' = [saved EXCEPT ![r] = Append(saved[r], Len(messages) + 1)]
            /\ wire' = [wire EXCEPT ![r] = EmitDone(wire[r])]
            /\ pc' = [pc EXCEPT ![r] = "DONE"]
            /\ UNCHANGED failure
       ELSE /\ Raise(r, commit_error(conversations, chat_request[r].conversation_id))
            /\ UNCHANGED <<messages, saved>>
    /\ UNCHANGED <<conversations, chat_request, history, context, prompt, full_content,
                   adapter, yielded, calls>>
    /\ UNCHANGED clientVars

\* the client closes the connection while the response is streaming: the
\* server cancels the task; the cancellation is no Exception, so neither the
\* adapter's nor generate_stream's except clause runs
Disconnect(r) ==
    /\ pc[r] = "STREAMING"
    /\ pc' = [pc EXCEPT ![r] = "FAILED"]
    /\ failure' = [failure EXCEPT ![r] = [kind |-> "cancelled", at |-> pc[r]]]
    /\ UNCHANGED <<conversations, messages, chat_request, history, context, prompt,
                   full_content, wire, adapter, yielded, calls, saved>>
    /\ UNCHANGED clientVars

Outcomes == {"ok", "empty", "raise"}

Next ==
    \/ \E c \in NewConvIds : create_conversation(c)
    \/ \E r \in Reqs, request \in ChatRequests : Receive(r, request)
    \/ \E r \in Reqs, dbOk \in BOOLEAN : PersistUser(r, dbOk)
    \/ \E r \in Reqs, dbOk \in BOOLEAN : LoadHistory(r, dbOk)
    \/ \E r \in Reqs, outcome \in Outcomes : EnrichWeb(r, outcome)
    \/ \E r \in Reqs, outcome \in Outcomes : EnrichMarket(r, outcome)
    \/ \E r \in Reqs : Assemble(r)
    \/ \E r \in Reqs, ok \in BOOLEAN : Dispatch(r, ok)
    \/ \E r \in Reqs :
         \E ev \in NativeEvents(ProviderFamily(chat_request[r].model_id), Len(yielded[r])) :
            NextEvent(r, ev)
    \/ \E r \in Reqs : StreamEnd(r)
    \/ \E r \in Reqs : StreamError(r)
    \/ \E r \in Reqs, dbOk \in BOOLEAN : PersistAssistant(r, dbOk)
    \/ \E r \in Reqs : Disconnect(r)

Spec == Init /\ [][Next]_vars

(***************************************************************************)
(* The pipeline under the scheduling the code gives: a step that is the    *)
(* code's own (a statement of generate_stream or of the service that       *)
(* waits for no external collaborator but the database) is eventually      *)
(* taken.  A step that is the answer of the search service, the market     *)
(* service or the generation backend is taken only if that collaborator    *)
(* answers: the code sets no deadline for it.                              *)
(***************************************************************************)
OwnStep(r) ==
    \/ \E dbOk \in BOOLEAN : PersistUser(r, dbOk)
    \/ \E dbOk \in BOOLEAN : LoadHistory(r, dbOk)
    \/ ~NeedsWebSearch(chat_request[r].message) /\ EnrichWeb(r, "ok")
    \/ ~NeedsMarketData(chat_request[r].message) /\ EnrichMarket(r, "ok")
    \/ Assemble(r)
    \/ ProviderFamily(chat_request[r].model_id) = "none" /\ Dispatch(r, TRUE)
    \/ \E dbOk \in BOOLEAN : PersistAssistant(r, dbOk)

LiveSpec == Spec /\ \A r \in Reqs : WF_vars(OwnStep(r))

(***************************************************************************)
(* The client reading one response of POST /api/chat/stream.  The server   *)
(* is another process: its variables stay as they were.                    *)
(***************************************************************************)
serverVars ==
    <<conversations, messages, pc, chat_request, history, context, prompt,
      full_content, wire, adapter, yielded, calls, saved, failure>>

\* the contents generate_stream can send: deltas of a provider, or the text
\* an adapter yields for an exception
ResponseContents ==
    {SubSeq(Deltas, 1, n) : n \in 0..MaxDeltas} \cup {<< ErrorChunk("openai", Boom) >>}

\* how generate_stream ends a response: [DONE], the error event of its
\* except branch, or nothing when the response is cut
ResponseEnds == {<< DoneEvent >>, << ErrorEvent(DbDown) >>, <<>>}

Responses ==
    {[i \in 1..Len(c) |-> ContentEvent(c[i])] \o t : c \in ResponseContents, t \in ResponseEnds}

\* the chunks reader.read() can return for a response: one per event, or the
\* body cut at any one place, or the body whole
Chunkings(w) ==
    {[i \in 1..Len(w) |-> Serialize(w[i])]}
      \cup {<< SubSeq(Body(w), 1, k), SubSeq(Body(w), k + 1, Len(Body(w))) >> :
               k \in 1..(Len(Body(w)) - 1)}
      \cup (IF w = <<>> THEN {} ELSE {<< Body(w) >>})

\* useChat.sendMessage has added the placeholder of the answer and
\* streamChatResponse has got the reader of an ok response
ClientInit ==
    /\ conversations = {}
    /\ messages = <<>>
    /\ pc = [r \in Reqs |-> "RECEIVED"]
    /\ chat_request = [r \in Reqs |-> NoRequest]
    /\ history = [r \in Reqs |-> <<>>]
    /\ context = [r \in Reqs |-> <<>>]
    /\ prompt = [r \in Reqs |-> <<>>]
    /\ full_content = [r \in Reqs |-> <<>>]
    /\ wire = [r \in Reqs |-> <<>>]
    /\ adapter = [r \in Reqs |-> "idle"]
    /\ yielded = [r \in Reqs |-> <<>>]
    /\ calls = [r \in Reqs |-> <<>>]
    /\ saved = [r \in Reqs |-> <<>>]
    /\ failure = [r \in Reqs |-> NoFailure]
    /\ response \in Responses
    /\ net \in Chunkings(response)
    /\ received = <<>>
    /\ ui = [content |-> <<>>, status |-> "streaming"]
    /\ home = HomeInitial("desktop")
    /\ PagesIdle

\* one turn of "while (true)": reader.read() returns a chunk, its lines are
\* processed, and the loop of sendMessage adds every yielded value to
\* fullContent; at [DONE] the generator returns and sendMessage resolves
ReadChunk ==
    /\ ui.status = "streaming"
    /\ net # <<>>
    /\ LET p == ProcessLines(Split(Head(net)), <<>>) IN
         /\ received' = received \o p.yields
         /\ ui' = [content |-> ui.content
                                 \o Concat([i \in 1..Len(p.yields) |-> ToText(p.yields[i])]),
                   status |-> IF p.returned THEN "complete" ELSE "streaming"]
    /\ net' = Tail(net)
    /\ UNCHANGED <<response, home, pageVars, serverVars>>

\* reader.read() returns done: break, the generator returns, the loop of
\* sendMessage ends and sendMessage resolves
ReadDone ==
    /\ ui.status = "streaming"
    /\ net = <<>>
    /\ ui' = [ui EXCEPT !.status = "complete"]
    /\ UNCHANGED <<response, net, received, home, pageVars, serverVars>>

\* reader.read() rejects (the connection is lost): the exception leaves the
\* generator and the loop, and sendMessage rethrows it
ReadFails ==
    /\ ui.status = "streaming"
    /\ ui' = [ui EXCEPT !.status = "failed"]
    /\ UNCHANGED <<response, net, received, home, pageVars, serverVars>>

ClientNext == ReadChunk \/ ReadDone \/ ReadFails

ClientSpec == ClientInit /\ [][ClientNext]_vars

(***************************************************************************)
(* Clicks on the Home page.                                                *)
(***************************************************************************)
HomeInit ==
    /\ conversations = {}
    /\ messages = <<>>
    /\ pc = [r \in Reqs |-> "RECEIVED"]
    /\ chat_request = [r \in Reqs |-> NoRequest]
    /\ history = [r \in Reqs |-> <<>>]
    /\ context = [r \in Reqs |-> <<>>]
    /\ prompt = [r \in Reqs |-> <<>>]
    /\ full_content = [r \in Reqs |-> <<>>]
    /\ wire = [r \in Reqs |-> <<>>]
    /\ adapter = [r \in Reqs |-> "idle"]
    /\ yielded = [r \in Reqs |-> <<>>]
    /\ calls = [r \in Reqs |-> <<>>]
    /\ saved = [r \in Reqs |-> <<>>]
    /\ failure = [r \in Reqs |-> NoFailure]
    /\ response = <<>>
    /\ net = <<>>
    /\ received = <<>>
    /\ ui = [content |-> <<>>, status |-> "idle"]
    /\ home \in {HomeInitial(v) : v \in {"desktop", "mobile"}}
    /\ PagesIdle

\* a click on a displayed element: the mousedown listener of the document
\* runs, then React runs the click handlers of the element's path
Click(target) ==
    /\ target \in Visible(home)
    /\ target \in Togglers => home.toggleCalls < MaxClicks
    /\ home' = Bubble(Path(target), target,
                      [handleClickOutside(target, home)
                         EXCEPT !.event = [NoEvent EXCEPT !.target = target]])
    /\ UNCHANGED <<response, net, received, ui, pageVars, serverVars>>

HomeNext == \E target \in Targets : Click(target)

HomeSpec == HomeInit /\ [][HomeNext]_vars

(***************************************************************************)
(* The enrichment and assembly stages on their own: two /stream requests   *)
(* on conversation c1 that have both saved their user message and loaded   *)
(* the conversation, for a wider choice of user texts.                     *)
(***************************************************************************)
TextLatestNews ==
    <<"l","a","t","e","s","t"," ","n","e","w","s"," ","i","n"," ","A","I"," ","d","e","v","e","l",
    "o","p","m","e","n","t">>

TextBitcoinPrice ==
    <<"W","h","a","t","'","s"," ","t","h","e"," ","c","u","r","r","e","n","t"," ","B","i","t","c",
    "o","i","n"," ","p","r","i","c","e","?">>

TextBTC == <<"B","T","C">>

TextToday == <<"T","o","d","a","y">>

TextMethod == <<"m","e","t","h","o","d">>

\* the user texts of the enrichment runs
Texts ==
    {TextHi, TextBtcNews, TextLatestNews, TextBitcoinPrice, TextBTC, TextToday, TextMethod}

EnrichRequest(text) == [conversation_id |-> "c1", message |-> text, model_id |-> GPT4]

EnrichInit ==
    \E t1 \in Texts, t2 \in Texts :
        /\ conversations = {"c1"}
        /\ messages = add_message(add_message(<<>>, "c1", "user", t1, GPT4),
                                  "c1", "user", t2, GPT4)
        /\ chat_request = [r \in Reqs |-> EnrichRequest(IF r = "r1" THEN t1 ELSE t2)]
        /\ saved = [r \in Reqs |-> IF r = "r1" THEN <<1>> ELSE <<2>>]
        /\ history = [r \in Reqs |-> get_conversation_with_messages(messages, "c1")]
        /\ pc = [r \in Reqs |-> "ENRICH_WEB"]
        /\ context = [r \in Reqs |-> <<>>]
        /\ prompt = [r \in Reqs |-> <<>>]
        /\ full_content = [r \in Reqs |-> <<>>]
        /\ wire = [r \in Reqs |-> <<>>]
        /\ adapter = [r \in Reqs |-> "idle"]
        /\ yielded = [r \in Reqs |-> <<>>]
        /\ calls = [r \in Reqs |-> <<>>]
        /\ failure = [r \in Reqs |-> NoFailure]
        /\ ClientIdle

EnrichNext ==
    \/ \E r \in Reqs, outcome \in Outcomes : EnrichWeb(r, outcome)
    \/ \E r \in Reqs, outcome \in Outcomes : EnrichMarket(r, outcome)
    \/ \E r \in Reqs : Assemble(r)

EnrichSpec == EnrichInit /\ [][EnrichNext]_vars

(***************************************************************************)
(* The stages up to prompt assembly on a conversation that already holds   *)
(* the messages of earlier requests.                                       *)
(***************************************************************************)
\* the most rows conversation c1 holds before the requests arrive
MaxPrior == 12

\* the role of the i-th row earlier requests left: user, assistant, user, ...
PriorRole(i) == IF i % 2 = 1 THEN "user" ELSE "assistant"

RECURSIVE Prior(_)
\* the message table after the n add_message calls of earlier requests on c1
Prior(n) ==
    IF n = 0 THEN <<>>
    ELSE add_message(Prior(n - 1), "c1", PriorRole(n), Delta(n), GPT4)

AssembleInit ==
    \E n \in 0..MaxPrior :
        /\ conversations = {"c1"}
        /\ messages = Prior(n)
        /\ pc = [r \in Reqs |-> "RECEIVED"]
        /\ chat_request = [r \in Reqs |-> NoRequest]
        /\ history = [r \in Reqs |-> <<>>]
        /\ context = [r \in Reqs |-> <<>>]
        /\ prompt = [r \in Reqs |-> <<>>]
        /\ full_content = [r \in Reqs |-> <<>>]
        /\ wire = [r \in Reqs |-> <<>>]
        /\ adapter = [r \in Reqs |-> "idle"]
        /\ yielded = [r \in Reqs |-> <<>>]
        /\ calls = [r \in Reqs |-> <<>>]
        /\ saved = [r \in Reqs |-> <<>>]
        /\ failure = [r \in Reqs |-> NoFailure]
        /\ ClientIdle

AssembleNext ==
    \/ \E r \in Reqs, request \in ChatRequests : Receive(r, request)
    \/ \E r \in Reqs, dbOk \in BOOLEAN : PersistUser(r, dbOk)
    \/ \E r \in Reqs, dbOk \in BOOLEAN : LoadHistory(r, dbOk)
    \/ \E r \in Reqs, outcome \in Outcomes : EnrichWeb(r, outcome)
    \/ \E r \in Reqs, outcome \in Outcomes : EnrichMarket(r, outcome)
    \/ \E r \in Reqs : Assemble(r)

AssembleSpec == AssembleInit /\ [][AssembleNext]_vars

(***************************************************************************)
(* Routing: requests with every kind of model id on conversation c1, up to *)
(* the call of the backend.                                                *)
(***************************************************************************)
CLAUDE_3 == <<"c","l","a","u","d","e","-","3">>

GROQ_LLAMA_8B == <<"g","r","o","q","-","l","l","a","m","a","-","3",".","1","-","8","b">>

GROQ_LLAMA_70B == <<"g","r","o","q","-","l","l","a","m","a","-","3",".","1","-","7","0","b">>

GROQ_GEMMA == <<"g","r","o","q","-","g","e","m","m","a">>

GROQ_FOO == <<"g","r","o","q","-","f","o","o">>

LLAMA_2 == <<"l","l","a","m","a","-","2">>

CODE_LLAMA == <<"C","o","d","e","-","L","l","a","m","a">>

\* model ids of every family, with and without an entry in groq_model_map,
\* and one that no family claims
ModelIds ==
    {GPT4, CLAUDE_3, GROQ_MIXTRAL, GROQ_LLAMA_8B, GROQ_FOO, LLAMA_2, CODE_LLAMA, FOO_BAR}

RouteRequests ==
    {[conversation_id |-> "c1", message |-> TextHi, model_id |-> m] : m \in ModelIds}

RouteInit ==
    /\ conversations = {"c1"}
    /\ messages = <<>>
    /\ pc = [r \in Reqs |-> "RECEIVED"]
    /\ chat_request = [r \in Reqs |-> NoRequest]
    /\ history = [r \in Reqs |-> <<>>]
    /\ context = [r \in Reqs |-> <<>>]
    /\ prompt = [r \in Reqs |-> <<>>]
    /\ full_content = [r \in Reqs |-> <<>>]
    /\ wire = [r \in Reqs |-> <<>>]
    /\ adapter = [r \in Reqs |-> "idle"]
    /\ yielded = [r \in Reqs |-> <<>>]
    /\ calls = [r \in Reqs |-> <<>>]
    /\ saved = [r \in Reqs |-> <<>>]
    /\ failure = [r \in Reqs |-> NoFailure]
    /\ ClientIdle

RouteNext ==
    \/ \E r \in Reqs, request \in RouteRequests : Receive(r, request)
    \/ \E r \in Reqs : PersistUser(r, TRUE)
    \/ \E r \in Reqs : LoadHistory(r, TRUE)
    \/ \E r \in Reqs : EnrichWeb(r, "ok")
    \/ \E r \in Reqs : EnrichMarket(r, "ok")
    \/ \E r \in Reqs : Assemble(r)
    \/ \E r \in Reqs, ok \in BOOLEAN : Dispatch(r, ok)

RouteSpec == RouteInit /\ [][RouteNext]_vars

(***************************************************************************)
(* The chat of the Home page: typing, submits, prompt clicks, New Chat and *)
(* the timers.                                                             *)
(***************************************************************************)
\* the server before any request
ServerIdle ==
    /\ conversations = {}
    /\ messages = <<>>
    /\ pc = [r \in Reqs |-> "RECEIVED"]
    /\ chat_request = [r \in Reqs |-> NoRequest]
    /\ history = [r \in Reqs |-> <<>>]
    /\ context = [r \in Reqs |-> <<>>]
    /\ prompt = [r \in Reqs |-> <<>>]
    /\ full_content = [r \in Reqs |-> <<>>]
    /\ wire = [r \in Reqs |-> <<>>]
    /\ adapter = [r \in Reqs |-> "idle"]
    /\ yielded = [r \in Reqs |-> <<>>]
    /\ calls = [r \in Reqs |-> <<>>]
    /\ saved = [r \in Reqs |-> <<>>]
    /\ failure = [r \in Reqs |-> NoFailure]

\* what the user can leave in the input: nothing, a space, a text
InputTexts == {<<>>, << " " >>, TextHi}

\* the prompts of the welcome screen
Prompts == {TextBitcoinPrice, TextLatestNews}

ChatInit ==
    /\ ServerIdle
    /\ ClientIdle

ChatUnchanged ==
    UNCHANGED <<response, net, received, ui, home, togglePage, notification, serverVars>>

\* onChange of the input
Type(text) ==
    /\ chat' = [chat EXCEPT !.inputText = text, !.lastEvent = "type"]
    /\ ChatUnchanged

\* the form is submitted or Enter is pressed: the handleSubmit of the
\* current render runs
Submit ==
    /\ chat.turns < MaxTurns
    /\ chat' = handleSubmit(chat.inputText, chat.isLoading,
                             [chat EXCEPT !.lastEvent = "submit"])
    /\ ChatUnchanged

\* a click on a prompt of the welcome screen
PromptClick(p) ==
    /\ chat.showWelcome
    /\ Len(chat.submitTimers) < MaxTurns
    /\ chat' = handlePromptClick(p, [chat EXCEPT !.lastEvent = "prompt"])
    /\ ChatUnchanged

\* 300 ms pass since the last click on a prompt
ClickAges ==
    /\ chat.clickAge = "within"
    /\ chat' = [chat EXCEPT !.clickAge = "over", !.lastEvent = "time"]
    /\ ChatUnchanged

\* the zero-delay timer of a double click fires: the handleSubmit of the
\* render of the click runs
SubmitTimerFires ==
    /\ chat.submitTimers # <<>>
    /\ chat.turns < MaxTurns
    /\ chat' = handleSubmit(Head(chat.submitTimers).inputText,
                             Head(chat.submitTimers).isLoading,
                             [chat EXCEPT !.submitTimers = Tail(@),
                                          !.lastEvent = "submit-timer"])
    /\ ChatUnchanged

\* the response timer that was started first fires after its second
ResponseTimerFires ==
    /\ chat.responseTimers # <<>>
    /\ chat' = responseCallback(Head(chat.responseTimers),
                                 [chat EXCEPT !.lastEvent = "response"])
    /\ ChatUnchanged

\* a click on New Chat or on the logo
NewChat ==
    /\ chat' = newChat([chat EXCEPT !.lastEvent = "new-chat"])
    /\ ChatUnchanged

ChatNext ==
    \/ \E text \in InputTexts : Type(text)
    \/ Submit
    \/ \E p \in Prompts : PromptClick(p)
    \/ ClickAges
    \/ SubmitTimerFires
    \/ ResponseTimerFires
    \/ NewChat

ChatSpec == ChatInit /\ [][ChatNext]_vars

(***************************************************************************)
(* The theme toggle test page, from its first render on.                   *)
(***************************************************************************)
ToggleInit ==
    /\ ServerIdle
    /\ response = <<>>
    /\ net = <<>>
    /\ received = <<>>
    /\ ui = [content |-> <<>>, status |-> "idle"]
    /\ home = HomeInitial("desktop")
    /\ chat = ChatInitial
    /\ notification = NotificationInitial
    /\ \E prefersDark \in BOOLEAN, savedTheme \in SavedThemes, rootDark \in BOOLEAN :
           togglePage = TogglePageInitial(prefersDark, savedTheme, rootDark)

ToggleUnchanged ==
    UNCHANGED <<response, net, received, ui, home, chat, notification, serverVars>>

\* the next outstanding effect runs
RunEffect ==
    /\ togglePage.effects # <<>>
    /\ LET t == [togglePage EXCEPT !.effects = Tail(@)]
       IN togglePage' = IF Head(togglePage.effects) = "checkInitialTheme"
                        THEN checkInitialTheme(t)
                        ELSE applyTheme(t)
    /\ ToggleUnchanged

\* the effects are through: the queued state update is rendered
Rerender ==
    /\ togglePage.effects = <<>>
    /\ togglePage.pending # "none"
    /\ togglePage' = rerender(togglePage)
    /\ ToggleUnchanged

\* a click on the toggle button
Toggle ==
    /\ Settled(togglePage)
    /\ Len(togglePage.history) < MaxToggles
    /\ togglePage' = TestTogglePage_toggleDarkMode(togglePage)
    /\ ToggleUnchanged

ToggleNext ==
    \/ RunEffect
    \/ Rerender
    \/ Toggle

ToggleSpec == ToggleInit /\ [][ToggleNext]_vars

(***************************************************************************)
(* The voice commands of the Home page and the notification they show.     *)
(***************************************************************************)
VoiceInit ==
    /\ ServerIdle
    /\ response = <<>>
    /\ net = <<>>
    /\ received = <<>>
    /\ ui = [content |-> <<>>, status |-> "idle"]
    /\ home = HomeInitial("desktop")
    /\ chat = ChatInitial
    /\ togglePage = TogglePageInitial(FALSE, "none", FALSE)
    /\ \E isDarkMode \in BOOLEAN :
           notification = [NotificationInitial EXCEPT !.isDarkMode = isDarkMode]

VoiceUnchanged ==
    UNCHANGED <<response, net, received, ui, home, chat, togglePage, serverVars>>

\* a click on the microphone: stop() while listening, start() otherwise
toggleVoiceRecognition ==
    /\ notification.mounted
    /\ IF notification.isListening
       THEN notification' =
                notificationEffect([notification EXCEPT
                    !.isListening = FALSE,
                    !.stopped = IF notification.isDarkMode THEN "dark" ELSE "light",
                    !.lastEvent = "microphone"])
       ELSE /\ notification.stopped = "none"
            /\ notification' =
                   notificationEffect([notification EXCEPT !.isListening = TRUE,
                                                           !.lastEvent = "microphone"])
    /\ VoiceUnchanged

\* the recognition of the current render delivers a result
SpeechResult(transcript) ==
    /\ notification.mounted
    /\ notification.isListening
    /\ notification' = onresult(transcript, notification.isDarkMode,
                                 [notification EXCEPT !.lastEvent = "result"])
    /\ VoiceUnchanged

\* a stopped recognition delivers what it had heard
StoppedResult(transcript) ==
    /\ notification.mounted
    /\ notification.stopped # "none"
    /\ notification' = onresult(transcript, notification.stopped = "dark",
                                 [notification EXCEPT !.stopped = "none",
                                                      !.lastEvent = "stopped-result"])
    /\ VoiceUnchanged

\* recognition.onend without a result
RecognitionEnds ==
    /\ notification.mounted
    /\ notification.isListening \/ notification.stopped # "none"
    /\ LET n == [notification EXCEPT !.isListening = FALSE,
                                     !.stopped = "none",
                                     !.lastEvent = "end"]
       IN notification' = IF notification.isListening THEN notificationEffect(n) ELSE n
    /\ VoiceUnchanged

\* a click on a theme toggler: the theme flips, Home renders, both effects run
ThemeClick ==
    /\ notification.mounted
    /\ notification' =
           notificationEffect(
               recognitionEffect(notification.isDarkMode,
                   [notification EXCEPT !.isDarkMode = ~@, !.lastEvent = "theme"]))
    /\ VoiceUnchanged

\* the user edits the input: Home renders
Keystroke(text) ==
    /\ notification.mounted
    /\ text # notification.inputText
    /\ notification' = notificationEffect([notification EXCEPT !.inputText = text,
                                                               !.lastEvent = "key"])
    /\ VoiceUnchanged

\* a second passes; a timer that is due fires first
Tick ==
    /\ notification.mounted
    /\ notification.timer # <<>>
    /\ notification.timer[1] < NOTIFICATION_SECONDS
    /\ notification' =
           [notification EXCEPT !.timer = <<@[1] + 1>>,
                                !.visibleFor = IF @ < MaxSeconds THEN @ + 1 ELSE @,
                                !.lastEvent = "tick"]
    /\ VoiceUnchanged

\* the timer of the notification fires
TimerFires ==
    /\ notification.mounted
    /\ notification.timer = <<NOTIFICATION_SECONDS>>
    /\ notification' = onClose([notification EXCEPT !.lastEvent = "timer"])
    /\ VoiceUnchanged

\* a click on the close button of the notification
CloseClick ==
    /\ notification.mounted
    /\ notification.isVisible
    /\ notification' = onClose([notification EXCEPT !.lastEvent = "close"])
    /\ VoiceUnchanged

\* Home is unmounted: the cleanups clear the timer and stop the recognition
Unmount ==
    /\ notification.mounted
    /\ notification' = [notification EXCEPT !.mounted = FALSE,
                                            !.timer = <<>>,
                                            !.isListening = FALSE,
                                            !.lastEvent = "unmount"]
    /\ VoiceUnchanged

VoiceNext ==
    \/ toggleVoiceRecognition
    \/ \E transcript \in Transcripts : SpeechResult(transcript)
    \/ \E transcript \in Transcripts : StoppedResult(transcript)
    \/ RecognitionEnds
    \/ ThemeClick
    \/ \E text \in {<<>>, TextHi} : Keystroke(text)
    \/ Tick
    \/ TimerFires
    \/ CloseClick
    \/ Unmount

VoiceSpec == VoiceInit /\ [][VoiceNext]_vars

\* time passes and a due timer runs
VoiceLiveSpec == VoiceSpec /\ WF_vars(Tick) /\ WF_vars(TimerFires)

(***************************************************************************)
(* Vocabulary of the properties.                                           *)
(***************************************************************************)
IsTerminal(e) == e.key \in {"[DONE]", "error"}

\* positions of the terminal events of a response
Terminals(w) == {i \in 1..Len(w) : IsTerminal(w[i])}

ContentEvents(w) == SelectSeq(w, LAMBDA e : e.key = "content")

\* the texts of the content events of a response, in order
Contents(w) == [i \in 1..Len(ContentEvents(w)) |-> ContentEvents(w)[i].value]

HasDone(w) == \E i \in 1..Len(w) : w[i] = DoneEvent

EndsWithError(w) == w # <<>> /\ w[Len(w)].key = "error"

Finished(r) == pc[r] \in {"DONE", "FAILED"}

\* the request ended in generate_stream's own control flow (not cancelled)
RanToEnd(r) ==
    pc[r] = "DONE" \/ (pc[r] = "FAILED" /\ failure[r].kind = "exception")

\* the text deltas the backend generated for the request (the chunks the
\* adapter yielded, without the error text of its except clause)
BackendDeltas(r) ==
    IF adapter[r] = "failed" THEN SubSeq(yielded[r], 1, Len(yielded[r]) - 1)
    ELSE yielded[r]

\* rows of the message table that add_message returned to the request
SavedRows(r) ==
    {m \in {messages[i] : i \in 1..Len(messages)} :
        \E j \in 1..Len(saved[r]) : saved[r][j] = m.id}

UserMessageStored(r) ==
    \E m \in SavedRows(r) :
        /\ m.role = "user"
        /\ m.content = chat_request[r].message
        /\ m.conversation_id = chat_request[r].conversation_id
        /\ \E i \in 1..Len(ConversationMessages(messages, chat_request[r].conversation_id)) :
              ConversationMessages(messages, chat_request[r].conversation_id)[i] = m

AssistantRows(r) == {m \in SavedRows(r) : m.role = "assistant"}

\* the request has completed PERSIST_USER
PastPersistUser(r) ==
    \/ pc[r] \in (ActiveStages \ {"PERSIST_USER"}) \cup {"DONE"}
    \/ pc[r] = "FAILED" /\ failure[r].at # "PERSIST_USER"

ProviderCalls(r) ==
    SelectSeq(calls[r], LAMBDA c : c.to \in {"openai", "anthropic", "groq"})

(***************************************************************************)
(* C1: every response that generate_stream ends (success, persistence      *)
(* error, unroutable model, provider error) holds exactly one terminal     *)
(* event, [DONE] or an error event, and it is the last event; while the    *)
(* request runs the response holds no terminal event.                      *)
(***************************************************************************)
C1_ExactlyOneTerminal ==
    \A r \in Reqs :
        /\ Cardinality(Terminals(wire[r])) <= 1
        /\ \A i \in Terminals(wire[r]) : i = Len(wire[r])
        /\ RanToEnd(r) => Cardinality(Terminals(wire[r])) = 1
        /\ Terminals(wire[r]) # {} => RanToEnd(r)
        /\ pc[r] = "DONE" => wire[r][Len(wire[r])] = DoneEvent
        /\ (pc[r] = "FAILED" /\ failure[r].kind = "exception") => EndsWithError(wire[r])

\* a response with content events that a persistence error terminated
C1_Witness ==
    \E r \in Reqs :
        /\ pc[r] = "FAILED"
        /\ failure[r].at = "PERSIST_ASSISTANT"
        /\ Len(wire[r]) = 3
        /\ EndsWithError(wire[r])

(***************************************************************************)
(* C2: the user message is appended before any external call is made; in   *)
(* every state after PERSIST_USER, FAILED states included, the user        *)
(* message is in the conversation's history.                               *)
(***************************************************************************)
C2_UserPersistedFirst ==
    \A r \in Reqs :
        /\ calls[r] # <<>> => UserMessageStored(r)
        /\ PastPersistUser(r) => UserMessageStored(r)

\* a request that made external calls and then failed
C2_Witness ==
    \E r \in Reqs :
        /\ pc[r] = "FAILED"
        /\ failure[r].at = "PERSIST_ASSISTANT"
        /\ Len(calls[r]) = 2
        /\ UserMessageStored(r)

(***************************************************************************)
(* C3: a stream request that arrives for a conversation with a request in  *)
(* a non-terminal state is rejected at once and changes nothing: it never  *)
(* enters the pipeline.                                                    *)
(***************************************************************************)
C3_BusyRejected ==
    [][\A r \in Reqs :
         ( /\ pc[r] = "RECEIVED"
           /\ pc'[r] # "RECEIVED"
           /\ \E q \in Reqs \ {r} :
                 /\ pc[q] \in ActiveStages
                 /\ chat_request[q].conversation_id = chat_request'[r].conversation_id )
         => ( /\ pc'[r] = "FAILED"
              /\ EndsWithError(wire'[r])
              /\ messages' = messages
              /\ calls' = calls )]_vars

(***************************************************************************)
(* C4: at most one request per conversation id is in flight (has persisted *)
(* its user message and has not ended), so the messages of two requests    *)
(* on one conversation are never interleaved.                              *)
(***************************************************************************)
InFlight(r) == pc[r] \in ActiveStages \ {"PERSIST_USER"}

C4_SingleFlight ==
    \A r, q \in Reqs :
        (r # q /\ InFlight(r) /\ InFlight(q))
            => chat_request[r].conversation_id # chat_request[q].conversation_id

\* the interleaved history user1, user2, assistant1, assistant2
C4_Interleaved ==
    \E r, q \in Reqs :
        /\ r # q
        /\ Len(saved[r]) = 2 /\ Len(saved[q]) = 2
        /\ saved[r][1] < saved[q][1] /\ saved[q][1] < saved[r][2]
        /\ saved[r][2] < saved[q][2]
        /\ chat_request[r].conversation_id = chat_request[q].conversation_id

(***************************************************************************)
(* C5: a request whose backend failed after at least one delta (and whose  *)
(* store did not fail) ends FAILED with an error event, and an assistant   *)
(* message holding the deltas emitted so far, tagged [incomplete], was     *)
(* persisted first.                                                        *)
(***************************************************************************)
C5_PartialPersisted ==
    \A r \in Reqs :
        (Finished(r) /\ failure[r].kind = "none"
           /\ adapter[r] = "failed" /\ BackendDeltas(r) # <<>>)
            => /\ pc[r] = "FAILED"
               /\ EndsWithError(wire[r])
               /\ Contents(wire[r]) = BackendDeltas(r)
               /\ \E m \in AssistantRows(r) :
                     /\ StartsWith(m.content, Concat(BackendDeltas(r)))
                     /\ Contains(m.content, INCOMPLETE)

(***************************************************************************)
(* C6: a request whose backend failed before any delta (and whose store    *)
(* did not fail) persists no assistant message: the only row it adds is    *)
(* its user message.                                                       *)
(***************************************************************************)
C6_NothingPersistedWithoutDelta ==
    \A r \in Reqs :
        (Finished(r) /\ failure[r].kind = "none"
           /\ adapter[r] = "failed" /\ BackendDeltas(r) = <<>>)
            => /\ AssistantRows(r) = {}
               /\ Len(saved[r]) = 1

(***************************************************************************)
(* C7: [DONE] is emitted only after the assistant message is persisted,    *)
(* and its content is the concatenation, in order, of the content events   *)
(* relayed to the client, with nothing added.                              *)
(***************************************************************************)
C7_DoneAfterPersist ==
    \A r \in Reqs :
        (HasDone(wire[r]) \/ pc[r] = "DONE")
            => /\ Len(saved[r]) = 2
               /\ \E m \in AssistantRows(r) :
                     /\ m.id = saved[r][2]
                     /\ m.conversation_id = chat_request[r].conversation_id
                     /\ m.content = Concat(Contents(wire[r]))
                     /\ ~Contains(m.content, INCOMPLETE)

\* a completed request that relayed two deltas
C7_Witness ==
    \E r \in Reqs :
        /\ pc[r] = "DONE"
        /\ adapter[r] = "closed"
        /\ Contents(wire[r]) = <<DeltaHello, DeltaThere>>

C9_ProviderFailureIsError ==
    \A r \in Reqs :
        adapter[r] = "failed"
            => /\ Contents(wire[r]) = BackendDeltas(r)
               /\ ~HasDone(wire[r])
               /\ Finished(r) => EndsWithError(wire[r])

(***************************************************************************)
(* C10: for a model id no provider family claims, no backend call is made, *)
(* the response ends with an error event and not [DONE], and the request   *)
(* adds no row but its user message.                                       *)
(***************************************************************************)
C10_UnroutableFails ==
    \A r \in Reqs :
        (pc[r] # "RECEIVED" /\ ProviderFamily(chat_request[r].model_id) = "none")
            => /\ ProviderCalls(r) = <<>>
               /\ ~HasDone(wire[r])
               /\ AssistantRows(r) = {}
               /\ pc[r] # "DONE"

(***************************************************************************)
(* C11: enrichment never fails the pipeline: no request ends FAILED from   *)
(* an enrichment stage, whatever the outcomes of the web-search and the    *)
(* market-data call, and the section of a call that failed is absent from  *)
(* the context and from the system message assembled from it.              *)
(***************************************************************************)
EnrichStages == {"ENRICH_WEB", "ENRICH_MARKET"}

\* the context key an enrichment call fills
ContextKey(to) == IF to = "brave_search" THEN "web_search" ELSE "crypto_data"

SectionHeader(to) == IF to = "brave_search" THEN WEB_HEADER ELSE CRYPTO_HEADER

\* the enrichment calls of a request, in the order they were made
EnrichCalls(r) ==
    SelectSeq(calls[r], LAMBDA c : c.to \in {"brave_search", "binance"})

C11_EnrichNeverFails ==
    \A r \in Reqs :
        /\ failure[r].at \notin EnrichStages
        /\ \A i \in 1..Len(EnrichCalls(r)) :
              EnrichCalls(r)[i].outcome # "ok"
                => /\ ~HasSection(context[r], ContextKey(EnrichCalls(r)[i].to))
                   /\ ~Contains(system_content(context[r]),
                                SectionHeader(EnrichCalls(r)[i].to))
                   /\ prompt[r] # <<>>
                        => ~Contains(prompt[r][1].content,
                                     SectionHeader(EnrichCalls(r)[i].to))

\* a request whose two enrichment calls both failed, one by raising, and that
\* went on to assemble its prompt
C11_Witness ==
    \E r \in Reqs :
        /\ pc[r] = "DISPATCH"
        /\ Len(EnrichCalls(r)) = 2
        /\ EnrichCalls(r)[1].outcome = "raise"
        /\ EnrichCalls(r)[2].outcome = "empty"
        /\ prompt[r][1].content = SYSTEM_BASE

(***************************************************************************)
(* C12: the web-search call is made if and only if the user text holds a   *)
(* freshness keyword as a substring, letter case ignored, and the          *)
(* market-data call if and only if it holds a market keyword; each call is *)
(* made at most once and a text with neither makes no external call.  For  *)
(* "latest news in AI development" only the web search is called, and the  *)
(* system message has no market-data section and, when the search          *)
(* delivered results, a web-search section.                                *)
(***************************************************************************)
\* kw occurs in text right after position i, letter case ignored
OccursAt(text, kw, i) ==
    \A j \in 1..Len(kw) : LowerChar(text[i + j]) = LowerChar(kw[j])

MatchesAny(text, keywords) ==
    \E kw \in keywords : \E i \in 0..(Len(text) - Len(kw)) : OccursAt(text, kw, i)

\* the number of calls a request made to one collaborator
CallsTo(r, to) == Len(SelectSeq(calls[r], LAMBDA c : c.to = to))

C12_TriggeredIffKeyword ==
    \A r \in Reqs :
        LET text == chat_request[r].message IN
        /\ CallsTo(r, "brave_search") <= 1
        /\ CallsTo(r, "binance") <= 1
        /\ CallsTo(r, "brave_search") = 1 => MatchesAny(text, FRESHNESS_KEYWORDS)
        /\ CallsTo(r, "binance") = 1 => MatchesAny(text, MARKET_KEYWORDS)
        /\ pc[r] \in {"ENRICH_MARKET", "ASSEMBLE", "DISPATCH"}
              => (MatchesAny(text, FRESHNESS_KEYWORDS) => CallsTo(r, "brave_search") = 1)
        /\ pc[r] \in {"ASSEMBLE", "DISPATCH"}
              => (MatchesAny(text, MARKET_KEYWORDS) => CallsTo(r, "binance") = 1)
        /\ (text = TextLatestNews /\ pc[r] = "DISPATCH")
              => /\ Len(calls[r]) = 1
                 /\ calls[r][1].to = "brave_search"
                 /\ ~Contains(prompt[r][1].content, CRYPTO_HEADER)
                 /\ calls[r][1].outcome = "ok"
                      => Contains(prompt[r][1].content, WEB_HEADER)

\* "latest news in AI development" assembled after a search that delivered
\* results, next to a request whose text has a keyword in upper case only
C12_Witness ==
    \E r, q \in Reqs :
        /\ chat_request[r].message = TextLatestNews
        /\ pc[r] = "DISPATCH"
        /\ calls[r][1].outcome = "ok"
        /\ Contains(prompt[r][1].content, WEB_HEADER)
        /\ chat_request[q].message = TextToday
        /\ pc[q] = "DISPATCH"
        /\ CallsTo(q, "brave_search") = 1

(***************************************************************************)
(* C13: for "What's the current Bitcoin price?" only the market-data call  *)
(* is made, no web search, and the assembled system message has no         *)
(* web-search section and, when the market call delivered data, a          *)
(* market-data section.                                                    *)
(***************************************************************************)
C13_OnlyMarketForBitcoinPrice ==
    \A r \in Reqs :
        (chat_request[r].message = TextBitcoinPrice /\ pc[r] = "DISPATCH")
            => /\ CallsTo(r, "brave_search") = 0
               /\ CallsTo(r, "binance") = 1
               /\ ~Contains(prompt[r][1].content, WEB_HEADER)
               /\ EnrichCalls(r)[Len(EnrichCalls(r))].outcome = "ok"
                    => Contains(prompt[r][1].content, CRYPTO_HEADER)

(***************************************************************************)
(* C13, as the code behaves: "What's the current Bitcoin price?" holds the *)
(* freshness keyword "current" next to the market keywords, so the web     *)
(* search is called first and the market data second; the system message   *)
(* has the web-search section exactly when the search delivered results    *)
(* and the market-data section exactly when the market call delivered data.*)
(***************************************************************************)
C13_BothForBitcoinPrice ==
    \A r \in Reqs :
        (chat_request[r].message = TextBitcoinPrice /\ pc[r] = "DISPATCH")
            => /\ Len(calls[r]) = 2
               /\ calls[r][1].to = "brave_search"
               /\ calls[r][2].to = "binance"
               /\ Contains(prompt[r][1].content, WEB_HEADER)
                    <=> calls[r][1].outcome = "ok"
               /\ Contains(prompt[r][1].content, CRYPTO_HEADER)
                    <=> calls[r][2].outcome = "ok"

\* the prompt for "What's the current Bitcoin price?" after two calls that
\* both delivered: the system message has both sections
C13_Witness ==
    \E r \in Reqs :
        /\ chat_request[r].message = TextBitcoinPrice
        /\ pc[r] = "DISPATCH"
        /\ calls[r][1].outcome = "ok"
        /\ calls[r][2].outcome = "ok"
        /\ Contains(prompt[r][1].content, WEB_HEADER)
        /\ Contains(prompt[r][1].content, CRYPTO_HEADER)

(***************************************************************************)
(* C14: when both enrichment calls are triggered they run concurrently:    *)
(* the market-data call has been started by the time the web search        *)
(* settles (a call is entered in the log in the step in which it starts    *)
(* and settles); enrichment ends only after both calls have settled, and   *)
(* the context then holds exactly the sections of the calls that           *)
(* delivered.                                                              *)
(***************************************************************************)
BothTriggered(r) ==
    /\ MatchesAny(chat_request[r].message, FRESHNESS_KEYWORDS)
    /\ MatchesAny(chat_request[r].message, MARKET_KEYWORDS)

C14_ConcurrentCalls ==
    \A r \in Reqs :
        BothTriggered(r)
            => /\ CallsTo(r, "brave_search") = 1 => CallsTo(r, "binance") = 1
               /\ pc[r] \in {"ASSEMBLE", "DISPATCH"}
                    => /\ Len(EnrichCalls(r)) = 2
                       /\ \A i \in 1..2 :
                             HasSection(context[r], ContextKey(EnrichCalls(r)[i].to))
                                <=> EnrichCalls(r)[i].outcome = "ok"

\* the web search has settled and the market-data call, also triggered, has
\* not been started
C14_Sequential ==
    \E r \in Reqs :
        /\ BothTriggered(r)
        /\ pc[r] = "ENRICH_MARKET"
        /\ CallsTo(r, "brave_search") = 1
        /\ CallsTo(r, "binance") = 0

(***************************************************************************)
(* C15: enrichment is idempotent: two requests with the same user text     *)
(* whose calls had the same outcomes end enrichment with the same context, *)
(* and a step of enrichment changes no row of the conversation or message  *)
(* table.                                                                  *)
(***************************************************************************)
\* the request has left the enrichment stages
EnrichDone(r) ==
    \/ pc[r] \in {"ASSEMBLE", "DISPATCH", "STREAMING", "PERSIST_ASSISTANT", "DONE"}
    \/ pc[r] = "FAILED" /\ failure[r].at \in {"STREAMING", "PERSIST_ASSISTANT"}

C15_EnrichIdempotent ==
    /\ [](\A r, q \in Reqs :
            ( /\ EnrichDone(r) /\ EnrichDone(q)
              /\ chat_request[r].message = chat_request[q].message
              /\ EnrichCalls(r) = EnrichCalls(q) )
            => context[r] = context[q])
    /\ [][\A r \in Reqs :
            (pc[r] \in EnrichStages /\ pc'[r] # pc[r])
                => (messages' = messages /\ conversations' = conversations)]_vars

\* two requests with the text "BTC news" whose web search raised and whose
\* market call delivered, both through enrichment
C15_Witness ==
    \E r, q \in Reqs :
        /\ r # q
        /\ EnrichDone(r) /\ EnrichDone(q)
        /\ chat_request[r].message = TextBtcNews
        /\ chat_request[q].message = TextBtcNews
        /\ EnrichCalls(r) = EnrichCalls(q)
        /\ Len(EnrichCalls(r)) = 2
        /\ EnrichCalls(r)[1].outcome = "raise"
        /\ EnrichCalls(r)[2].outcome = "ok"
        /\ context[r] = ("crypto_data" :> CryptoData)

(***************************************************************************)
(* C16: the estimated token count of the message list that prompt assembly *)
(* returns never exceeds the token limit, whatever the length of the       *)
(* history and the enrichment context.                                     *)
(***************************************************************************)
\* a token limit that the system message and the new user message fit in
\* with room for two more messages of one token
TokenLimit == 4

RECURSIVE EstimatedTokens(_)
\* the token count of a message list: the sum over the contents
EstimatedTokens(list) ==
    IF list = <<>> THEN 0
    ELSE count_tokens(Head(list).content) + EstimatedTokens(Tail(list))

C16_WithinTokenLimit ==
    \A r \in Reqs :
        prompt[r] # <<>> => EstimatedTokens(prompt[r]) <= TokenLimit

(***************************************************************************)
(* C17: the message list that prompt assembly returns starts with the      *)
(* system message, holds no other system message, and ends with the new    *)
(* user message, for every length of the history.                          *)
(***************************************************************************)
C17_SystemFirstUserLast ==
    \A r \in Reqs :
        prompt[r] # <<>>
            => /\ Len(prompt[r]) >= 2
               /\ prompt[r][1].role = "system"
               /\ StartsWith(prompt[r][1].content, SYSTEM_BASE)
               /\ \A i \in 2..Len(prompt[r]) : prompt[r][i].role # "system"
               /\ prompt[r][Len(prompt[r])] =
                     [role |-> "user", content |-> chat_request[r].message]

\* a prompt assembled from a history longer than the window: the system
\* message, ten history messages and the new user message
C17_Witness ==
    \E r \in Reqs :
        /\ Len(history[r]) > HISTORY_WINDOW
        /\ Len(prompt[r]) = HISTORY_WINDOW + 2
        /\ prompt[r][1].role = "system"
        /\ prompt[r][Len(prompt[r])].content = chat_request[r].message

(***************************************************************************)
(* C18: what is read back from a conversation is what was appended to it:  *)
(* the rows in creation order, each with the role and content it was       *)
(* written with, the request's own user message among them; the window     *)
(* taken from a history of n rows is its last min(10, n) rows, oldest      *)
(* first.                                                                  *)
(***************************************************************************)
RoleContent(m) == [role |-> m.role, content |-> m.content]

\* the rows of the request's conversation, as appended
Appended(r) == ConversationMessages(messages, chat_request[r].conversation_id)

\* the role and content row id was written with: by the request that saved
\* it, or by an earlier request
Written(id) ==
    IF \E q \in Reqs : saved[q] # <<>> /\ saved[q][1] = id
    THEN [role |-> "user",
          content |-> chat_request[CHOOSE q \in Reqs :
                                      saved[q] # <<>> /\ saved[q][1] = id].message]
    ELSE [role |-> PriorRole(id), content |-> Delta(id)]

\* the number of rows the window keeps of a history of n rows
WindowLen(n) == IF n < HISTORY_WINDOW THEN n ELSE HISTORY_WINDOW

C19_AppendOnly ==
    [][ /\ Len(messages') >= Len(messages)
        /\ \A i \in 1..Len(messages) : messages'[i] = messages[i]
        /\ \A c \in {"c1", "c2"} :
              /\ Len(ConversationMessages(messages', c))
                    >= Len(ConversationMessages(messages, c))
              /\ SubSeq(ConversationMessages(messages', c), 1,
                        Len(ConversationMessages(messages, c)))
                    = ConversationMessages(messages, c) ]_vars

\* a log of three rows left by a request that completed and one that failed
\* after its user message was stored
C19_Witness ==
    /\ Len(messages) = 3
    /\ \E r, q \in Reqs :
          /\ pc[r] = "DONE"
          /\ pc[q] = "FAILED"
          /\ Len(saved[q]) = 1

(***************************************************************************)
(* C20: in every reachable state the roles of the rows of each             *)
(* conversation are an optional leading system message followed by user    *)
(* and assistant messages in strict alternation: no system message after   *)
(* the first row, and no two adjacent rows with the same role.             *)
(***************************************************************************)
\* the roles of the rows of a conversation, in creation order
Roles(c) ==
    [i \in 1..Len(ConversationMessages(messages, c)) |->
        ConversationMessages(messages, c)[i].role]

Alternates(roles) ==
    /\ \A i \in 1..Len(roles) : roles[i] \in {"system", "user", "assistant"}
    /\ \A i \in 2..Len(roles) : roles[i] # "system"
    /\ \A i \in 2..Len(roles) : roles[i] # roles[i - 1]

C20_RolesAlternate ==
    \A c \in {"c1", "c2"} : Alternates(Roles(c))

\* a request that was cancelled after its user message was stored, and
\* another whose user message is the next row of the same conversation
C20_AdjacentUsers ==
    \E r, q \in Reqs :
        /\ pc[r] = "FAILED"
        /\ failure[r].kind = "cancelled"
        /\ pc[q] = "DONE"
        /\ saved[r] = <<1>>
        /\ saved[q] = <<2, 3>>
        /\ Roles("c1") = <<"user", "user", "assistant">>

Cancelled(r) == pc[r] = "FAILED" /\ failure[r].kind = "cancelled"

C22_DisconnectPersistsPartial ==
    \A r \in Reqs :
        Cancelled(r)
            => /\ Contents(wire[r]) = yielded[r]
               /\ full_content[r] = Concat(yielded[r])
               /\ yielded[r] = <<>> => AssistantRows(r) = {}
               /\ yielded[r] # <<>>
                    => \E m \in AssistantRows(r) :
                          /\ StartsWith(m.content, full_content[r])
                          /\ Contains(m.content, INCOMPLETE)

\* a request cancelled after it relayed "Hello": the text is accumulated and
\* the only row the request stored is its user message
C22_PartialLost ==
    \E r \in Reqs :
        /\ Cancelled(r)
        /\ full_content[r] = DeltaHello
        /\ Len(saved[r]) = 1
        /\ AssistantRows(r) = {}

RowsWithId(id) == {i \in 1..Len(messages) : messages[i].id = id}

ExpectedYields(w) ==
    [i \in 1..Len(ContentEvents(w)) |-> StringValue(ContentEvents(w)[i].value)]

IsPrefix(a, b) == Len(a) <= Len(b) /\ a = SubSeq(b, 1, Len(a))

\* C25: for every response, streamChatResponse yields exactly the content
\* strings of the content events that precede the terminal event, in order:
\* what it has yielded so far is a prefix of them, and when it has returned it
\* has yielded all of them and nothing for or after the terminal event.
C25_YieldsContents ==
    /\ IsPrefix(received, ExpectedYields(response))
    /\ ui.status = "complete" => received = ExpectedYields(response)

\* C25: a response whose events each arrive in a chunk of their own and that
\* ends with the error event has been read to its end, and the generator has
\* yielded the value undefined for the error event.
C25_ErrorEventYielded ==
    /\ ui.status = "complete"
    /\ response = << ContentEvent(DeltaHello), ErrorEvent(DbDown) >>
    /\ received = << StringValue(DeltaHello), Undefined >>

\* C25: a response that ends with [DONE] has been read to its end, and a
\* content event that arrived cut in two chunks was never yielded.
C25_CutEventDropped ==
    /\ ui.status = "complete"
    /\ response = << ContentEvent(DeltaHello), DoneEvent >>
    /\ received = <<>>

\* C26: a client that reads a response without [DONE] (ended by the error
\* event or just closed) treats the request as failed whatever it received:
\* sendMessage never resolves for such a response, and the text of the
\* message never holds more than the contents of the content events.
C26_NoDoneIsFailure ==
    /\ ui.status = "complete" => HasDone(response)
    /\ IsPrefix(ui.content, Concat(Contents(response)))

\* C26: the response 'Hello', error event has been read to its end;
\* sendMessage resolved and the message text is 'Helloundefined'.
C26_ErrorShownAsComplete ==
    /\ response = << ContentEvent(DeltaHello), ErrorEvent(DbDown) >>
    /\ net = <<>>
    /\ ui = [content |-> DeltaHello \o UNDEFINED_TEXT, status |-> "complete"]

\* C27: each click on an AnimatedThemeToggler calls toggleDarkMode exactly
\* once and stops the propagation of the click: no other handler runs, and the
\* open state of the mobile sidebar and the collapsed state of the desktop
\* sidebar are what they were before the click.
C27_TogglerClick ==
    [][(home' # home /\ home'.event.target \in Togglers)
        => /\ home'.toggleCalls = home.toggleCalls + 1
           /\ home'.event.stopped
           /\ home'.event.handlers = << "AnimatedThemeToggler" >>
           /\ home'.isSidebarOpen = home.isSidebarOpen
           /\ home'.isDesktopSidebarCollapsed = home.isDesktopSidebarCollapsed]_vars

\* the toggler in the footer of the open mobile sidebar has been clicked twice
C27_Witness ==
    /\ home.event.target = "mobile-toggler"
    /\ home.isSidebarOpen
    /\ home.toggleCalls = 2

\* the requests that ran on a conversation and have ended
TerminatedOn(c) ==
    {q \in Reqs : Finished(q) /\ chat_request[q].conversation_id = c}

\* the requests that are running on a conversation
RunningOn(c) ==
    {q \in Reqs : pc[q] \in ActiveStages /\ chat_request[q].conversation_id = c}

\* C28: after a request on a conversation has reached DONE or FAILED (by an
\* exception, an unroutable model or a client disconnect), the next request
\* on the same conversation is accepted: it enters the pipeline at
\* PERSIST_USER with an empty response and is not rejected, and a request
\* that waits for such a conversation can always be received.
C28_AcceptedAfterTermination ==
    /\ [](\A r \in Reqs, c \in NewConvIds :
            (pc[r] = "RECEIVED" /\ TerminatedOn(c) # {} /\ RunningOn(c) = {})
            => \E request \in ChatRequests :
                  request.conversation_id = c /\ ENABLED Receive(r, request))
    /\ [][\A r \in Reqs :
            ( /\ pc[r] = "RECEIVED"
              /\ pc'[r] # "RECEIVED"
              /\ TerminatedOn(chat_request'[r].conversation_id) # {}
              /\ RunningOn(chat_request'[r].conversation_id) = {} )
            => ( /\ pc'[r] = "PERSIST_USER"
                 /\ wire'[r] = <<>>
                 /\ failure'[r] = NoFailure )]_vars

\* a request was cancelled by a disconnect, and another request on the same
\* conversation has run to DONE behind it
C28_Witness ==
    \E q \in Reqs, r \in Reqs :
        /\ r # q
        /\ Cancelled(q)
        /\ pc[r] = "DONE"
        /\ chat_request[r].conversation_id = chat_request[q].conversation_id
        /\ chat_request[r].conversation_id \in conversations
        /\ AssistantRows(q) = {}
        /\ AssistantRows(r) # {}

\* the stages of a request in the order of generate_stream's statements
StageOrder ==
    << "RECEIVED", "PERSIST_USER", "LOAD_HISTORY", "ENRICH_WEB", "ENRICH_MARKET",
       "ASSEMBLE", "DISPATCH", "STREAMING", "PERSIST_ASSISTANT", "DONE" >>

StageIndex(stage) == CHOOSE i \in 1..Len(StageOrder) : StageOrder[i] = stage

\* the state of the request's state machine a stage belongs to: the read of
\* the history follows the append of the user message at the store, and the
\* two enrichment calls are one state
StateRank(stage) ==
    CASE stage = "RECEIVED" -> 0
      [] stage \in {"PERSIST_USER", "LOAD_HISTORY"} -> 1
      [] stage \in {"ENRICH_WEB", "ENRICH_MARKET"} -> 2
      [] stage = "ASSEMBLE" -> 3
      [] stage = "DISPATCH" -> 4
      [] stage = "STREAMING" -> 5
      [] stage = "PERSIST_ASSISTANT" -> 6
      [] stage = "DONE" -> 7

\* C29: every request moves through RECEIVED, PERSIST_USER, ENRICH,
\* ASSEMBLE, DISPATCH, STREAMING, PERSIST_ASSISTANT, DONE in this order,
\* never skipping a state or going back, or moves to FAILED; no step leaves
\* DONE or FAILED.  A step that relays a chunk to the client on its way from
\* DISPATCH to PERSIST_ASSISTANT has streamed.
C29_StatesInOrder ==
    [][\A r \in Reqs :
         pc'[r] # pc[r]
         => /\ ~Finished(r)
            /\ \/ pc'[r] = "FAILED"
               \/ /\ StageIndex(pc'[r]) > StageIndex(pc[r])
                  /\ StateRank(pc'[r]) <= StateRank(pc[r]) + 1
               \/ /\ pc[r] = "DISPATCH"
                  /\ pc'[r] = "PERSIST_ASSISTANT"
                  /\ wire'[r] # wire[r]]_vars

\* C29: a request for a model id that no family claims is about to persist
\* its answer and has never been in STREAMING: no backend was called and
\* nothing was sent.
C29_StreamingSkipped ==
    \E r \in Reqs :
        /\ pc[r] = "PERSIST_ASSISTANT"
        /\ ProviderFamily(chat_request[r].model_id) = "none"
        /\ ProviderCalls(r) = <<>>
        /\ wire[r] = <<>>

\* the window of a request: role and content of the last HISTORY_WINDOW
\* messages of the history it read
Window(r) ==
    [i \in 1..WindowLen(Len(history[r])) |->
        RoleContent(history[r][Len(history[r]) - WindowLen(Len(history[r])) + i])]

\* the history messages of an assembled list: all but the first and the last
KeptHistory(r) == SubSeq(prompt[r], 2, Len(prompt[r]) - 1)

\* the list with the last k messages of the window fits the limit
Fits(r, k) ==
    EstimatedTokens(<< Head(prompt[r]) >> \o LastN(Window(r), k)
                      \o << prompt[r][Len(prompt[r])] >>) <= TokenLimit

\* C30: the history that assemble keeps is a contiguous suffix of the window
\* in its order, and the longest one whose list fits tokenLimit: it fits
\* (or is empty), and no longer suffix of the window fits.
C30_LongestFittingSuffix ==
    \A r \in Reqs :
        prompt[r] # <<>>
        => \E k \in 0..Len(Window(r)) :
              /\ KeptHistory(r) = LastN(Window(r), k)
              /\ k = 0 \/ Fits(r, k)
              /\ \A j \in (k + 1)..Len(Window(r)) : ~Fits(r, j)

\* C30: a list was assembled with the whole window of ten messages although
\* its estimate exceeds the limit and a shorter suffix would fit.
C30_NothingDropped ==
    \E r \in Reqs :
        /\ prompt[r] # <<>>
        /\ KeptHistory(r) = Window(r)
        /\ Len(Window(r)) = HISTORY_WINDOW
        /\ ~Fits(r, HISTORY_WINDOW)
        /\ Fits(r, 2)

\* C31: between the system message and the new user message the assembled
\* list holds at most HISTORY_WINDOW history messages; they are the last
\* messages of the conversation as the request read it, oldest first, which
\* are rows of the store in creation order; a history shorter than the
\* window is included whole.
C31_WindowOfMostRecent ==
    \A r \in Reqs :
        prompt[r] # <<>>
        => /\ Len(KeptHistory(r)) <= HISTORY_WINDOW
           /\ Len(KeptHistory(r)) <= Len(history[r])
           /\ \A j \in 1..Len(KeptHistory(r)) :
                 KeptHistory(r)[j]
                   = RoleContent(history[r][Len(history[r]) - Len(KeptHistory(r)) + j])
           /\ Len(history[r]) < HISTORY_WINDOW => Len(KeptHistory(r)) = Len(history[r])
           /\ Len(history[r]) >= HISTORY_WINDOW => Len(KeptHistory(r)) = HISTORY_WINDOW
           /\ \A i \in 1..Len(history[r]) :
                 /\ history[r][i] = Appended(r)[i]
                 /\ i > 1 => history[r][i - 1].id < history[r][i].id

\* a request read twelve rows, its own message the last of them, and its list
\* holds the last ten in their order
C31_Witness ==
    \E r \in Reqs :
        /\ Len(history[r]) = HISTORY_WINDOW + 2
        /\ Len(KeptHistory(r)) = HISTORY_WINDOW
        /\ KeptHistory(r)[1] = RoleContent(history[r][3])
        /\ KeptHistory(r)[HISTORY_WINDOW] = RoleContent(history[r][HISTORY_WINDOW + 2])

\* C32: in the list sent to the provider the new user message of the request
\* is the last message and appears once: the row the request persisted for
\* it is not among the history messages of the list.
C32_NewUserMessageOnce ==
    \A r \in Reqs :
        prompt[r] # <<>>
        => /\ prompt[r][Len(prompt[r])]
                = [role |-> "user", content |-> chat_request[r].message]
           /\ \A j \in 1..Len(KeptHistory(r)) :
                 history[r][Len(history[r]) - Len(KeptHistory(r)) + j].id # saved[r][1]

\* C32: the first request on an empty conversation has assembled its list:
\* the system message and then its user message twice, once from the row it
\* persisted and once as the new message.
C32_UserMessageTwice ==
    \E r \in Reqs :
        /\ Len(history[r]) = 1
        /\ history[r][1].id = saved[r][1]
        /\ Len(prompt[r]) = 3
        /\ prompt[r][2] = [role |-> "user", content |-> chat_request[r].message]
        /\ prompt[r][3] = prompt[r][2]

\* the model ids the alias table of the groq family has an entry for
GroqAliases == {GROQ_LLAMA_70B, GROQ_LLAMA_8B, GROQ_MIXTRAL, GROQ_GEMMA}

\* the identifier a model id stands for: its entry in the alias table, or
\* the id itself when it has none
Canonical(model_id) ==
    IF model_id \in GroqAliases THEN groq_model_map(model_id) ELSE model_id

\* C33: routing is a function of the model id alone: a request calls at most
\* one provider family, two requests with the same id call the same family
\* with the same identifier, and the identifier sent to the backend is the
\* alias table's identifier for the id, or the id itself when it has no entry.
C33_RoutedUnderOwnIdentifier ==
    /\ \A r \in Reqs :
          /\ Len(ProviderCalls(r)) <= 1
          /\ \A i \in 1..Len(ProviderCalls(r)) :
                ProviderCalls(r)[i].model = Canonical(chat_request[r].model_id)
    /\ \A r \in Reqs, q \in Reqs :
          ( /\ chat_request[r].model_id = chat_request[q].model_id
            /\ ProviderCalls(r) # <<>>
            /\ ProviderCalls(q) # <<>> )
          => /\ ProviderCalls(r)[1].to = ProviderCalls(q)[1].to
             /\ ProviderCalls(r)[1].model = ProviderCalls(q)[1].model

\* C33: a request for 'groq-foo', which has no entry in the alias table, has
\* called the groq backend under the identifier of another model.
C33_DispatchedAsDefault ==
    \E r \in Reqs :
        /\ chat_request[r].model_id = GROQ_FOO
        /\ ProviderCalls(r) # <<>>
        /\ ProviderCalls(r)[1].to = "groq"
        /\ ProviderCalls(r)[1].model = GROQ_DEFAULT_MODEL
        /\ ProviderCalls(r)[1].model = groq_model_map(GROQ_LLAMA_70B)

\* C34: what streamChatResponse yields depends only on the events of the
\* response, not on how its bytes are split over the reads: when the
\* generator has returned it has yielded what it yields for the body read in
\* one piece, and once every chunk of a response with [DONE] is read the
\* generator has returned.
C34_ChunkingIndependent ==
    /\ ui.status = "complete"
          => received = ProcessLines(Split(Body(response)), <<>>).yields
    /\ (net = <<>> /\ HasDone(response) /\ ui.status # "failed")
          => ui.status = "complete"

\* C34: the response 'Hello', ' there', [DONE] was read to its end in two
\* chunks and the generator returned having yielded 'Hello' only: the second
\* event arrived split over the two reads.
C34_SplitEventLost ==
    /\ response = << ContentEvent(DeltaHello), ContentEvent(DeltaThere), DoneEvent >>
    /\ net = <<>>
    /\ ui.status = "complete"
    /\ received = << StringValue(DeltaHello) >>

\* C35: a submit (form submit, Enter or the submit of a double-clicked
\* prompt) that runs while the input is blank or a response is pending
\* leaves messages, inputText and isLoading as they are; so at most one
\* response timer is pending, isLoading is true exactly while one is pending,
\* and every user message of the page's life is answered by at most one
\* pending or delivered response.
C35_RejectedSubmitChangesNothing ==
    /\ [][(/\ chat'.lastEvent \in {"submit", "submit-timer"}
            /\ (Trim(chat.inputText) = <<>> \/ chat.isLoading))
           => /\ chat'.messages = chat.messages
              /\ chat'.inputText = chat.inputText
              /\ chat'.isLoading = chat.isLoading]_vars
    /\ [](/\ Len(chat.responseTimers) <= 1
          /\ chat.isLoading <=> chat.responseTimers # <<>>)

\* a second submit was accepted while the response to the first is pending:
\* two response timers run
C35_TwoResponsesPending ==
    /\ chat.isLoading
    /\ Len(chat.responseTimers) = 2
    /\ chat.lastEvent = "submit-timer"

\* C36: whatever the order of submits, New Chat or logo clicks and response
\* callbacks, every assistant message of the list stands right after the
\* user message it answers, and an empty list (as New Chat leaves it) gets
\* its next message from an accepted submit only.
C36_AnswerFollowsItsQuestion ==
    /\ [](\A i \in 1..Len(chat.messages) :
              chat.messages[i].role = "assistant"
              => /\ i > 1
                 /\ chat.messages[i - 1].role = "user"
                 /\ chat.messages[i - 1].turn = chat.messages[i].turn)
    /\ [][(chat.messages = <<>> /\ chat'.messages # <<>>)
           => chat'.lastEvent \in {"submit", "submit-timer"}]_vars

\* the response to a message sent before New Chat arrives on the welcome
\* screen: the list holds the answer alone
C36_OrphanAnswer ==
    /\ chat.lastEvent = "response"
    /\ chat.showWelcome
    /\ Len(chat.messages) = 1
    /\ chat.messages[1].role = "assistant"

\* C37: on the toggle test page, once the effects have run after mount and
\* after every toggle, the root has class 'dark' exactly when isDarkMode is
\* true and the item 'theme' is 'dark' exactly when isDarkMode is true; before
\* any toggle the mode is the saved theme when there is one and the system
\* preference otherwise; after two toggles the mode is what it was before
\* them.
C37_ThemeFollowsMode ==
    Settled(togglePage)
    => LET t == togglePage
           n == Len(t.history)
       IN /\ t.rootDark <=> t.isDarkMode
          /\ t.theme = "dark" <=> t.isDarkMode
          /\ t.theme \in {"dark", "light"}
          /\ n = 0 => (t.isDarkMode <=> IF t.savedTheme # "none"
                                        THEN t.savedTheme = "dark"
                                        ELSE t.prefersDark)
          /\ n >= 2 => t.isDarkMode = t.history[n - 1]

\* a page that found 'dark' saved on a root without the class and a light
\* system preference, toggled twice
C37_Witness ==
    /\ Settled(togglePage)
    /\ togglePage.savedTheme = "dark"
    /\ ~togglePage.prefersDark
    /\ Len(togglePage.history) = 2
    /\ togglePage.isDarkMode
    /\ togglePage.rootDark

\* C38: a speech result whose transcript, trimmed and lower-cased, is
\* 'system switch dark mode' (or 'system switch light mode') leaves the theme
\* dark (or light) whatever it was, with at most one call of toggleDarkMode,
\* the notification visible, listening off and the input text as it was; any
\* other transcript becomes the input text and changes neither the theme nor
\* the notification.
C38_VoiceCommandSetsTheme ==
    [][notification'.lastEvent \in {"result", "stopped-result"}
       => LET n == notification
              m == notification'
              command == Trim(Lower(m.heard))
          IN IF command \in {DARK_COMMAND, LIGHT_COMMAND}
             THEN /\ m.isDarkMode <=> command = DARK_COMMAND
                  /\ m.toggleCalls <= 1
                  /\ m.isVisible
                  /\ ~m.isListening
                  /\ m.inputText = n.inputText
             ELSE /\ m.inputText = m.heard
                  /\ m.isDarkMode = n.isDarkMode
                  /\ <<m.isVisible, m.message, m.theme>> = <<n.isVisible, n.message, n.theme>>]_vars

\* a recognition stopped by the theme change delivers 'system switch dark
\* mode' to the handler of the dark render: the theme is light and stays so
C38_StaleHandlerKeepsLight ==
    /\ notification.lastEvent = "stopped-result"
    /\ Trim(Lower(notification.heard)) = DARK_COMMAND
    /\ ~notification.isDarkMode
    /\ notification.toggleCalls = 0
    /\ notification.message = "Already in dark mode"

\* C39: the timer of a visible notification calls onClose three seconds after
\* the notification became visible; a notification that is hidden or
\* unmounted has no timer left; and every visible notification is closed in
\* the end, also when Home renders while it is visible.
C39_ClosedAfterThreeSeconds ==
    /\ [][notification'.lastEvent = "timer"
           => notification.visibleFor = NOTIFICATION_SECONDS]_vars
    /\ [](~(notification.mounted /\ notification.isVisible) => notification.timer = <<>>)
    /\ ((notification.mounted /\ notification.isVisible)
         ~> ~(notification.mounted /\ notification.isVisible))

\* the notification is still on the screen five seconds after it appeared,
\* with a timer that was started again two seconds ago
C39_StillVisibleAfterFive ==
    /\ notification.mounted
    /\ notification.isVisible
    /\ notification.visibleFor = MaxSeconds
    /\ notification.timer = <<2>>
    /\ notification.lastEvent = "tick"

====
